---- MODULE Spec2Model ----
(***************************************************************************)
(* The WhatsApp notification engine of the task-management backend:        *)
(*   backend/notifications/service.py  NotificationService                 *)
(*   backend/tasks/signals.py          the pre_save / post_save handlers    *)
(*                                                                         *)
(* Encoding of Python values                                               *)
(*   str            a TLA+ string; "" is the empty (falsy) string           *)
(*   phone numbers  sequences of one-character strings (they are edited     *)
(*                  character by character); <<>> is the empty string       *)
(*   int            the strings "int:0", "int:7" (see PyStr, PyTruthy)      *)
(*   None           PyNone                                                  *)
(*   dict           a function; the empty function << >> is {} ; a key a    *)
(*                  dict lacks is outside its DOMAIN                        *)
(*   a message      the sequence of its non-empty pieces; <<>> is ""        *)
(*   a template     a sequence of tokens <<"L", text>> (literal text) and   *)
(*                  <<"P", name>> (the placeholder {name})                  *)
(***************************************************************************)
EXTENDS Integers, Sequences, FiniteSets, TLC

\* ------------------------------------------------------------------ bounds
MaxRecipients == 2
MaxRetries == 2

\* ------------------------------------------------- Python value helpers
PyNone == "<None>"

PyTruthy(v) == v \notin {PyNone, "", "int:0"}

PyStr(v) ==
  CASE v = "int:0" -> "0"
    [] v = "int:1" -> "1"
    [] v = "int:2" -> "2"
    [] v = "int:3" -> "3"
    [] v = "int:7" -> "7"
    [] OTHER -> v

\* The int n as a Python value.
PyInt(n) ==
  CASE n = 0 -> "int:0"
    [] n = 1 -> "int:1"
    [] n = 2 -> "int:2"
    [] n = 3 -> "int:3"
    [] OTHER -> "int:7"

DictGet(d, k, default) == IF k \in DOMAIN d THEN d[k] ELSE default

\* d[k] = v
DictSet(d, k, v) == [x \in DOMAIN d \cup {k} |-> IF x = k THEN v ELSE d[x]]

\* str.replace(ch, '') on a string held as a sequence of characters
RECURSIVE StrRemove(_, _)
StrRemove(s, ch) ==
  IF s = <<>> THEN <<>>
  ELSE IF Head(s) = ch THEN StrRemove(Tail(s), ch)
  ELSE <<Head(s)>> \o StrRemove(Tail(s), ch)

\* --------------------------------------------- NotificationService tables
ROLE_NOTIFICATION_PREFERENCES(role) ==
  CASE role = "designer" ->
         {"NEW_PROJECT", "NEW_SUBTASK", "STATUS_CHANGE", "COMMENT_ADDED",
          "REPLY_ADDED", "COMMENT_RESOLVED", "ATTACHMENT_ADDED"}
    [] role = "print_manager" ->
         {"STATUS_CHANGE", "SUBTASK_UPDATE", "SUBTASK_SPECS_UPDATE",
          "COMMENT_ADDED", "ATTACHMENT_ADDED"}
    [] role = "admin" ->
         {"NEW_PROJECT", "NEW_SUBTASK", "STATUS_CHANGE", "COMMENT_ADDED",
          "SUBTASK_UPDATE", "ATTACHMENT_ADDED"}
    [] OTHER -> {}

ROLE_RELEVANT_STATUSES(role) ==
  CASE role = "designer" ->
         {"Has Comments", "Awaiting Materials", "On Hold", "Cancelled"}
    [] role = "print_manager" ->
         {"Design Completed", "Ready for Montage", "In Montage",
          "Montage Completed", "In Printing", "Ready for Delivery"}
    [] role = "admin" ->
         {"Ready for Delivery", "Delivered", "Cancelled", "On Hold"}
    [] OTHER -> {}

REQUIRED_PLACEHOLDERS ==
  [NEW_PROJECT |-> <<"taskTitle", "clientName", "clientCode", "status", "urgency">>,
   NEW_SUBTASK |-> <<"taskTitle", "clientName", "clientCode", "status">>,
   SUBTASK_UPDATE |-> <<"taskTitle", "clientName", "clientCode", "size", "printingType">>,
   SUBTASK_SPECS_UPDATE |-> <<"taskTitle", "clientName", "clientCode", "size", "printingType">>,
   STATUS_CHANGE |-> <<"taskTitle", "clientName", "clientCode", "statusMessage", "oldStatus", "newStatus">>,
   COMMENT_ADDED |-> <<"taskTitle", "clientName", "clientCode", "taskLabel", "commentText", "commentCount">>,
   REPLY_ADDED |-> <<"taskTitle", "clientName", "clientCode", "taskLabel", "commentText">>,
   COMMENT_RESOLVED |-> <<"taskTitle", "clientName", "clientCode", "taskLabel">>,
   ATTACHMENT_ADDED |-> <<"taskTitle", "clientName", "clientCode", "taskLabel", "attachmentCount", "attachmentNames">>]

Lit(text) == <<"L", text>>
Ph(name) == <<"P", name>>

\* The built-in templates: the heading, then the placeholders in the order
\* in which the template text names them (the labels between them are
\* constant text and are folded into the heading).
DEFAULT_TEMPLATES ==
  [NEW_PROJECT |-> <<Lit("new project"), Ph("taskTitle"), Ph("clientName"), Ph("clientCode"), Ph("status"), Ph("urgency")>>,
   NEW_SUBTASK |-> <<Lit("new subtask"), Ph("taskTitle"), Ph("clientName"), Ph("clientCode"), Ph("status")>>,
   SUBTASK_UPDATE |-> <<Lit("subtask update"), Ph("taskTitle"), Ph("clientName"), Ph("clientCode"), Ph("size"), Ph("printingType")>>,
   SUBTASK_SPECS_UPDATE |-> <<Lit("specs update"), Ph("taskTitle"), Ph("clientName"), Ph("clientCode"), Ph("size"), Ph("printingType")>>,
   STATUS_CHANGE |-> <<Lit("status update"), Ph("taskTitle"), Ph("clientName"), Ph("clientCode"), Ph("statusMessage"), Ph("oldStatus"), Ph("newStatus")>>,
   COMMENT_ADDED |-> <<Lit("new comment"), Ph("taskLabel"), Ph("taskTitle"), Ph("clientName"), Ph("clientCode"), Ph("commentText"), Ph("commentCount")>>,
   REPLY_ADDED |-> <<Lit("new reply"), Ph("taskLabel"), Ph("taskTitle"), Ph("clientName"), Ph("clientCode"), Ph("commentText")>>,
   COMMENT_RESOLVED |-> <<Lit("comment resolved"), Ph("taskLabel"), Ph("taskTitle"), Ph("clientName"), Ph("clientCode")>>,
   ATTACHMENT_ADDED |-> <<Lit("new attachments"), Ph("taskLabel"), Ph("taskTitle"), Ph("clientName"), Ph("clientCode"), Ph("attachmentCount"), Ph("attachmentNames")>>]

\* ------------------------------------------------ results of a call
\* The exception classes that occur; each is a subclass of Exception.
PythonExceptions == {"Exception", "ValueError", "AttributeError", "DatabaseError"}

\* A Python call either returns a value or raises an exception.
Returned(v) == [exc |-> "", val |-> v]
Raised(e, info) == [exc |-> e, val |-> info]

Range(s) == {s[i] : i \in 1..Len(s)}

\* ------------------------------------------------------ render_template
\* Variant: a substitution that leaves the {clientCode} field as it is.
TokenText_KeepsClientCode(tok, context) ==
  IF tok[1] = "L" THEN tok[2]
  ELSE IF tok[2] = "clientCode" THEN "{clientCode}"
  ELSE PyStr(context[tok[2]])

\* The text of one token once the context is substituted into it.
TokenText(tok, context) == IF tok[1] = "L" THEN tok[2] ELSE PyStr(context[tok[2]])

\* template.format(**context): the pieces of the formatted text, the empty
\* ones dropped (the message is empty exactly when no piece is left).
RECURSIVE Format(_, _)
Format(template, context) ==
  IF template = <<>> THEN <<>>
  ELSE LET piece == TokenText(Head(template), context)
       IN  (IF piece = "" THEN <<>> ELSE <<piece>>) \o Format(Tail(template), context)

\* The placeholders a template names.
TemplateFields(template) ==
  {template[i][2] : i \in {j \in 1..Len(template) : template[j][1] = "P"}}

\* Variant: every required placeholder is reported once one is missing.
MissingPlaceholders_ReportsAll(template_type, context) ==
  LET required == DictGet(REQUIRED_PLACEHOLDERS, template_type, <<>>)
  IN  IF \E i \in 1..Len(required) : required[i] \notin DOMAIN context
        THEN required ELSE <<>>

\* The required placeholders the context lacks, in the order of the table.
MissingPlaceholders(template_type, context) ==
  LET required == DictGet(REQUIRED_PLACEHOLDERS, template_type, <<>>)
  IN  SelectSeq(required, LAMBDA key : key \notin DOMAIN context)

\* custom_templates if custom_templates else DEFAULT_TEMPLATES
TemplatesInUse(custom_templates) ==
  IF DOMAIN custom_templates # {} THEN custom_templates ELSE DEFAULT_TEMPLATES

render_template(template_type, context, custom_templates) ==
  LET templates == TemplatesInUse(custom_templates)
  IN  IF template_type \notin DOMAIN templates
        THEN Raised("ValueError", <<"Invalid template type", template_type>>)
      ELSE IF MissingPlaceholders(template_type, context) # <<>>
        THEN Raised("ValueError", <<"Missing required placeholders",
                                   MissingPlaceholders(template_type, context)>>)
      ELSE IF ~(TemplateFields(templates[template_type]) \subseteq DOMAIN context)
        THEN Raised("ValueError", <<"Template contains undefined placeholder",
                   TemplateFields(templates[template_type]) \ DOMAIN context>>)
      ELSE Returned(Format(templates[template_type], context))

\* ------------------------------------------------------ recipient filter
\* A configured recipient is one entry of the whatsapp_numbers JSON list.
\* isDict is FALSE for an entry that is not a JSON object (the JSON field
\* accepts any value); reading a key of such an entry raises AttributeError.
Absent == "<absent>"

RecipientRole(recipient) == IF recipient.role = Absent THEN "admin" ELSE recipient.role

should_send_to_role(template_type, role, context) ==
  IF template_type \notin ROLE_NOTIFICATION_PREFERENCES(role) THEN FALSE
  ELSE IF template_type = "STATUS_CHANGE" /\ DOMAIN context # {}
    THEN IF role \in {"designer", "print_manager"}
           THEN DictGet(context, "newStatus", "") \in ROLE_RELEVANT_STATUSES(role)
           ELSE TRUE
  ELSE TRUE

\* The phone with spaces and every '+' removed.
NormalizePhone(phone) == StrRemove(StrRemove(phone, " "), "+")

should_exclude_action_creator(recipient, context) ==
  LET created_by_user_id == DictGet(context, "created_by_user_id", PyNone)
      has_creator_phone == /\ "created_by_phone" \in DOMAIN context
                           /\ context["created_by_phone"] # <<>>
      recipient_user_id == IF recipient.userId = Absent THEN PyNone ELSE recipient.userId
  IN  IF ~PyTruthy(created_by_user_id) /\ ~has_creator_phone THEN FALSE
      ELSE IF /\ PyTruthy(created_by_user_id) /\ PyTruthy(recipient_user_id)
              /\ PyStr(created_by_user_id) = PyStr(recipient_user_id) THEN TRUE
      ELSE IF /\ has_creator_phone
              /\ NormalizePhone(recipient.phone) = NormalizePhone(context["created_by_phone"])
        THEN TRUE
      ELSE FALSE

\* f'STATUS_{new_status}'
StatusKey(new_status) ==
  CASE new_status = "In Printing" -> "STATUS_In Printing"
    [] new_status = "Pending" -> "STATUS_Pending"
    [] new_status = "Cancelled" -> "STATUS_Cancelled"
    [] OTHER -> "STATUS_?"

\* Variant: the status-specific key is never consulted.
check_user_preferences_TypeKeyOnly(recipient, template_type, context) ==
  IF DOMAIN recipient.preferences = {} THEN TRUE
  ELSE DictGet(recipient.preferences, template_type, TRUE)

\* check_user_preferences(recipient, template_type, context): True for a
\* recipient without preferences; for STATUS_CHANGE with a new status the
\* entry of that status, else the entry of STATUS_CHANGE; else the entry of
\* the type; True where the entry is missing.
check_user_preferences(recipient, template_type, context) ==
  LET preferences == recipient.preferences
      new_status == DictGet(context, "newStatus", PyNone)
  IN  IF DOMAIN preferences = {} THEN TRUE
      ELSE IF template_type = "STATUS_CHANGE" /\ DOMAIN context # {} /\ PyTruthy(new_status)
        THEN IF StatusKey(new_status) \in DOMAIN preferences
               THEN preferences[StatusKey(new_status)]
               ELSE DictGet(preferences, "STATUS_CHANGE", TRUE)
      ELSE DictGet(preferences, template_type, TRUE)

\* Variant: the loop body without its third check.
PassesFilter_NoPreferences(template_type, recipient, context) ==
  /\ should_send_to_role(template_type, RecipientRole(recipient), context)
  /\ ~should_exclude_action_creator(recipient, context)

\* The three checks of the loop body, in the code's order.
PassesFilter(template_type, recipient, context) ==
  /\ should_send_to_role(template_type, RecipientRole(recipient), context)
  /\ ~should_exclude_action_creator(recipient, context)
  /\ check_user_preferences(recipient, template_type, context)

filter_recipients_by_role(template_type, recipients, context) ==
  IF \E i \in 1..Len(recipients) : ~recipients[i].isDict
    THEN Raised("AttributeError", <<"get">>)
    ELSE Returned(SelectSeq(recipients, LAMBDA r : PassesFilter(template_type, r, context)))

\* ------------------------------------------------------------- inputs
\* The entries a whatsapp_numbers list is drawn from.
Recipient(phone, number, apiKey, role, userId, preferences) ==
  [isDict |-> TRUE, phone |-> phone, number |-> number, apiKey |-> apiKey,
   role |-> role, userId |-> userId, preferences |-> preferences]

rAdmin == Recipient(<<>>, <<"2", "1">>, "k1", Absent, Absent, <<>>)
rPrint == Recipient(<<>>, <<"2", "2">>, "k2", "print_manager", Absent, <<>>)
\* the same number as rAdmin, under the older 'phone' key
rDup == Recipient(<<"2", "1">>, <<>>, "k3", "admin", "int:7", <<>>)
rNoPhone == Recipient(<<>>, <<>>, "k4", "admin", Absent, <<>>)
rMuted == Recipient(<<>>, <<"2", "3">>, "k5", "designer", Absent,
                    [NEW_PROJECT |-> FALSE, STATUS_CHANGE |-> FALSE])
\* a number whose apiKey was left empty
rNoKey == Recipient(<<>>, <<"2", "4">>, "", "admin", Absent, <<>>)
\* a list entry that is not a JSON object
rBad == [isDict |-> FALSE, phone |-> <<>>, number |-> <<>>, apiKey |-> "",
         role |-> Absent, userId |-> Absent, preferences |-> <<>>]

\* send_notification called with no recipient entry behind it
NoRecipient == Recipient(<<>>, <<>>, "", Absent, Absent, <<>>)

RecipientPool == {rAdmin, rPrint, rDup, rNoPhone, rNoKey, rMuted, rBad}

RecipientLists == UNION {[1..n -> RecipientPool] : n \in 0..MaxRecipients}

\* The notification_templates the store may hold: none; a custom template
\* for NEW_PROJECT alone; one that names a placeholder no context has, with
\* an empty STATUS_CHANGE template.
CustomNone == <<>>
CustomNewProject ==
  [NEW_PROJECT |-> <<Lit("custom project"), Ph("taskTitle"), Ph("clientName"),
                     Ph("clientCode"), Ph("status"), Ph("urgency")>>]
CustomBroken ==
  [NEW_PROJECT |-> <<Lit("custom project"), Ph("taskTitle"), Ph("reviewer")>>,
   STATUS_CHANGE |-> <<>>]

TemplateChoices == {CustomNone, CustomNewProject, CustomBroken}

\* The states of the configuration store (UnifiedSettings row 1) at the
\* moment get_settings reads it.
StoreStates ==
  {[state |-> "missing", whatsapp_numbers |-> <<>>, notifications_enabled |-> FALSE,
    notification_templates |-> <<>>]}
  \cup [state : {"ok", "raises"}, whatsapp_numbers : RecipientLists,
        notifications_enabled : BOOLEAN, notification_templates : TemplateChoices]

Unread == [state |-> "unread", whatsapp_numbers |-> <<>>, notifications_enabled |-> FALSE,
           notification_templates |-> <<>>]

\* Variant: the except branch of get_settings left out: a failed read is not an empty, disabled configuration.
get_settings_IgnoresFailure(store) ==
  IF store.state # "missing"
    THEN [whatsapp_numbers |-> store.whatsapp_numbers,
          notifications_enabled |-> store.notifications_enabled,
          notification_templates |-> store.notification_templates]
    ELSE [whatsapp_numbers |-> <<>>, notifications_enabled |-> FALSE,
          notification_templates |-> <<>>]

\* get_settings(): (whatsapp_numbers, notifications_enabled, notification_templates);
\* ([], False, None) when the row is missing or the read raises.
get_settings(store) ==
  IF store.state = "ok"
    THEN [whatsapp_numbers |-> store.whatsapp_numbers,
          notifications_enabled |-> store.notifications_enabled,
          notification_templates |-> store.notification_templates]
    ELSE [whatsapp_numbers |-> <<>>, notifications_enabled |-> FALSE,
          notification_templates |-> <<>>]

ProjectContext ==
  [taskTitle |-> "Logo", clientName |-> "Acme", clientCode |-> "C-1",
   status |-> "Pending", urgency |-> "Normal"]

StatusContext(new_status) ==
  [taskTitle |-> "Logo", clientName |-> "Acme", clientCode |-> "C-1",
   statusMessage |-> "updated", oldStatus |-> "In Progress", newStatus |-> new_status]

\* The (template_type, context) pairs send_task_notification is called with.
DispatchCalls ==
  {<<"NEW_PROJECT", ProjectContext>>,
   <<"NEW_PROJECT", [k \in DOMAIN ProjectContext \cup {"created_by_user_id"} |->
                       IF k = "created_by_user_id" THEN "int:7" ELSE ProjectContext[k]]>>,
   <<"NEW_PROJECT", [k \in DOMAIN ProjectContext \ {"urgency"} |-> ProjectContext[k]]>>,
   <<"STATUS_CHANGE", StatusContext("In Printing")>>,
   <<"STATUS_CHANGE", StatusContext("Pending")>>,
   <<"COMMENT_RESOLVED", [taskTitle |-> "Logo", clientName |-> "Acme",
                          clientCode |-> "C-1", taskLabel |-> "project"]>>,
   <<"TASK_ARCHIVED", <<>>>>}

\* The arguments send_notification is called with directly.
SendPhones == {<<>>, <<"2", "1">>}
SendKeys == {"", "k1"}
SendMessages == {<<>>, <<"hello">>}

\* What one requests.get call ends in: a response with status 200, a
\* response with another status, or an exception.
Responses == {"200", "500", "Timeout", "RequestException", "Exception"}

\* ------------------------------------------------------------ the rows
\* TaskStatus rows: id, order_index, label.
StatusIds == {"Pending", "In Progress", "Ready for Delivery"}

\* The id the views and the parent-status handler look for; a row of that
\* id is not among the initial rows, it exists once somebody created it.
HasComments == "has-comments"

order_index(status) ==
  CASE status = "Pending" -> 0
    [] status = "In Progress" -> 1
    [] status = HasComments -> 2
    [] OTHER -> 4

\* TaskStatus.label (the labels are Arabic text; written here in English)
StatusLabel(status) ==
  CASE status = "Pending" -> "label Pending"
    [] status = "In Progress" -> "label In Progress"
    [] status = HasComments -> "label Has Comments"
    [] OTHER -> "label Ready for Delivery"

NoParent == "<no parent>"

\* The rows at the start: project P with its subtasks S and T, an open
\* comment C on P and a resolved comment R on S.
InitialDb ==
  [statuses |-> StatusIds,
   tasks |-> [P |-> [status |-> "In Progress", parent |-> NoParent],
              S |-> [status |-> "In Progress", parent |-> "P"],
              T |-> [status |-> "Ready for Delivery", parent |-> "P"]],
   comments |-> [C |-> [task |-> "P", parent_comment |-> NoParent, is_resolved |-> FALSE,
                        text |-> "note"],
                 R |-> [task |-> "S", parent_comment |-> NoParent, is_resolved |-> TRUE,
                        text |-> "done"]],
   attachments |-> <<>>]

\* The same rows once the 'has-comments' status exists and P has taken it.
InitialDbs ==
  {InitialDb,
   [InitialDb EXCEPT !.statuses = @ \cup {HasComments}, !.tasks.P.status = HasComments]}

PyBool(b) == IF b THEN "True" ELSE "False"

\* dict without the key k
DictDel(d, k) == [x \in DOMAIN d \ {k} |-> d[x]]

\* -------------------------------------------------------------- state
VARIABLES
  db,          \* the rows of tasks, comments and attachments
  stack,       \* the save() calls in progress, the innermost last
  comment_original_states,  \* the module-level dict _comment_original_states
  pc,          \* where control is
  call,        \* the operation in progress: its kind, template_type, context
  settings,    \* the configuration store as get_settings found it
  loop,        \* the fan-out in progress: message, recipients, index, results
  snd,         \* the send_notification call in progress
  sendCalls,   \* every send_notification call made: recipient, message, result
  http,        \* the number of requests.get calls made
  logs,        \* the NotificationLog rows created
  ret,         \* how the operation ended: "True", "False", "saved", "raised"
  request,     \* the save() a view asked for
  caught,      \* the exceptions an except clause of the operation caught
  pure,        \* a direct call of a function without side effects: arguments, result
  fired,       \* the handlers that entered their try block, in order: handler, row, context
  threads      \* concurrent requests saving one comment: position, instance, what each fired

vars == <<db, stack, comment_original_states, pc, call, settings, loop, snd, sendCalls,
          http, logs, ret, request, caught, pure, fired, threads>>

NoCall == [kind |-> "idle", handler |-> "", template_type |-> "", context |-> <<>>]
NoLoop == [message |-> <<>>, recipients |-> <<>>, idx |-> 0, results |-> <<>>,
           renders |-> 0, render_exc |-> ""]
NoPure == [fn |-> ""]
NoThreads == <<>>
NoRequest == [model |-> "", id |-> "", inst |-> <<>>, created |-> FALSE,
              view |-> "", data |-> <<>>]
NoSend == [phone |-> <<>>, api_key |-> "", message |-> <<>>, retry_count |-> 0,
           attempt |-> 0, attempts |-> 0, ok200 |-> 0, last |-> "", slept |-> <<>>,
           result |-> "pending"]

Init ==
  /\ db \in InitialDbs
  /\ stack = <<>>
  /\ comment_original_states = <<>>
  /\ pc = "idle"
  /\ call = NoCall
  /\ settings = Unread
  /\ loop = NoLoop
  /\ snd = NoSend
  /\ sendCalls = <<>>
  /\ http = 0
  /\ logs = <<>>
  /\ ret = "pending"
  /\ request = NoRequest
  /\ caught = {}
  /\ pure = NoPure
  /\ fired = <<>>
  /\ threads = NoThreads

\* ---------------------------------------------------- send_notification
\* The entry of send_notification(phone_number, api_key, message, retry_count).
NewSend(phone, api_key, message, retry_count) ==
  [NoSend EXCEPT !.phone = phone, !.api_key = api_key, !.message = message,
                 !.retry_count = retry_count]

\* retry_count: int = 2
DefaultRetryCount == 2

\* Variant: a fixed delay of one second instead of 2 ** attempt.
Pow2_Fixed(n) == 1

\* 2 ** attempt
RECURSIVE Pow2(_)
Pow2(n) == IF n = 0 THEN 1 ELSE 2 * Pow2(n - 1)

\* Variant: range(retry_count): the retries without the first attempt.
AttemptsAllowed_NoFirstAttempt(retry_count) == retry_count

\* range(retry_count + 1): the number of passes of the attempt loop.
AttemptsAllowed(retry_count) == retry_count + 1

\* Variant: the attempt without its last clause, except Exception.
SendCatches_RequestErrorsOnly(response) == response \in {"Timeout", "RequestException"}

\* The except clauses of the attempt: Timeout, RequestException, Exception.
SendCatches(response) == response \in {"Timeout", "RequestException", "Exception"}

\* A caller outside the service calls send_notification.
Call_send_notification ==
  /\ UNCHANGED <<pure, fired, threads>>
  /\ UNCHANGED <<request, caught>>
  /\ pc = "idle"
  /\ \E phone \in SendPhones, api_key \in SendKeys, message \in SendMessages,
        retry_count \in 0..MaxRetries :
       /\ snd' = NewSend(phone, api_key, message, retry_count)
       /\ sendCalls' = <<[to |-> NoRecipient, template_type |-> "", context |-> <<>>,
                        phone |-> phone, message |-> message, ok |-> FALSE]>>
  /\ call' = [NoCall EXCEPT !.kind = "send"]
  /\ pc' = "send_check"
  /\ UNCHANGED <<db, stack, comment_original_states>>
  /\ UNCHANGED <<settings, loop, http, logs, ret>>

\* Variant: the parameter check without `not message`.
send_notification_check_IgnoresMessage ==
  /\ UNCHANGED <<pure, fired, threads>>
  /\ UNCHANGED <<request, caught>>
  /\ pc = "send_check"
  /\ IF snd.phone = <<>> \/ snd.api_key = ""
       THEN /\ snd' = [snd EXCEPT !.result = "False"]
            /\ pc' = "send_return"
       ELSE /\ snd' = snd
            /\ pc' = "send_attempt"
  /\ UNCHANGED <<db, stack, comment_original_states>>
  /\ UNCHANGED <<call, settings, loop, sendCalls, http, logs, ret>>

\* if not phone_number or not api_key or not message: return False
send_notification_check ==
  /\ UNCHANGED <<pure, fired, threads>>
  /\ UNCHANGED <<request, caught>>
  /\ pc = "send_check"
  /\ IF snd.phone = <<>> \/ snd.api_key = "" \/ snd.message = <<>>
       THEN /\ snd' = [snd EXCEPT !.result = "False"]
            /\ pc' = "send_return"
       ELSE /\ snd' = snd
            /\ pc' = "send_attempt"
  /\ UNCHANGED <<db, stack, comment_original_states>>
  /\ UNCHANGED <<call, settings, loop, sendCalls, http, logs, ret>>

\* One pass of the loop `for attempt in range(retry_count + 1)`: the request,
\* its answer, and the wait before the next pass.
send_notification_attempt ==
  /\ UNCHANGED <<pure, fired, threads>>
  /\ UNCHANGED <<request, caught>>
  /\ pc = "send_attempt"
  /\ snd.attempt < AttemptsAllowed(snd.retry_count)
  /\ \E response \in Responses :
       /\ http' = http + 1
       /\ IF response = "200"
            THEN /\ snd' = [snd EXCEPT !.attempts = @ + 1, !.ok200 = @ + 1,
                                       !.last = response, !.result = "True"]
                 /\ pc' = "send_return"
          ELSE IF response = "500" \/ SendCatches(response)
            THEN /\ snd' = [snd EXCEPT !.attempts = @ + 1, !.last = response,
                                       !.attempt = @ + 1,
                                       !.slept = IF snd.attempt < snd.retry_count
                                                   THEN Append(@, Pow2(snd.attempt))
                                                   ELSE @,
                                       !.result = IF snd.attempt + 1 < AttemptsAllowed(snd.retry_count)
                                                    THEN "pending" ELSE "False"]
                 /\ pc' = IF snd.attempt + 1 < AttemptsAllowed(snd.retry_count)
                            THEN "send_attempt" ELSE "send_return"
          ELSE /\ snd' = [snd EXCEPT !.attempts = @ + 1, !.last = response,
                                     !.result = "raised"]
               /\ pc' = "send_return"
  /\ UNCHANGED <<db, stack, comment_original_states>>
  /\ UNCHANGED <<call, settings, loop, sendCalls, logs, ret>>

\* The direct caller gets the result.
send_notification_return ==
  /\ UNCHANGED <<pure, fired, threads>>
  /\ UNCHANGED <<request, caught>>
  /\ pc = "send_return"
  /\ call.kind = "send"
  /\ ret' = snd.result
  /\ sendCalls' = [sendCalls EXCEPT ![Len(sendCalls)].ok = (snd.result = "True")]
  /\ pc' = "done"
  /\ UNCHANGED <<db, stack, comment_original_states>>
  /\ UNCHANGED <<call, settings, loop, snd, http, logs>>

\* ------------------------------------------------- send_task_notification
\* A caller outside the service calls send_task_notification(template_type, context).
Call_send_task_notification ==
  /\ UNCHANGED <<pure, fired, threads>>
  /\ UNCHANGED <<request, caught>>
  /\ pc = "idle"
  /\ \E c \in DispatchCalls :
       call' = [kind |-> "dispatch", handler |-> "", template_type |-> c[1], context |-> c[2]]
  /\ pc' = "dispatch_settings"
  /\ UNCHANGED <<db, stack, comment_original_states>>
  /\ UNCHANGED <<settings, loop, snd, sendCalls, http, logs, ret>>

\* Variant: send_task_notification without its last clause, except Exception.
DispatchCatches_ValueErrorOnly(exc) == exc = "ValueError"

\* The except clauses of send_task_notification: ValueError, then Exception.
DispatchCatches(exc) == exc = "ValueError" \/ exc \in PythonExceptions

\* What send_task_notification ends in when a step inside its try raises exc.
DispatchOnException(exc) == IF DispatchCatches(exc) THEN "False" ELSE "raised"

\* The exceptions caught so far, once exc has been raised inside the try.
DispatchCaught(exc) == IF DispatchCatches(exc) THEN caught \cup {exc} ELSE caught

\* get_settings(), then the two early returns.
send_task_notification_settings ==
  /\ UNCHANGED <<pure, fired, threads>>
  /\ UNCHANGED <<request, caught>>
  /\ pc = "dispatch_settings"
  /\ \E store \in StoreStates :
       /\ settings' = store
       /\ IF ~get_settings(store).notifications_enabled
            THEN ret' = "False" /\ pc' = "done"
          ELSE IF get_settings(store).whatsapp_numbers = <<>>
            THEN ret' = "False" /\ pc' = "done"
          ELSE ret' = ret /\ pc' = "dispatch_filter"
  /\ UNCHANGED <<db, stack, comment_original_states>>
  /\ UNCHANGED <<call, loop, snd, sendCalls, http, logs>>

\* filter_recipients_by_role, and the return when nobody is left.
send_task_notification_filter ==
  /\ UNCHANGED <<pure, fired, threads>>
  /\ UNCHANGED request
  /\ pc = "dispatch_filter"
  /\ LET filtered == filter_recipients_by_role(call.template_type,
                        get_settings(settings).whatsapp_numbers, call.context)
     IN  IF filtered.exc # ""
           THEN /\ ret' = DispatchOnException(filtered.exc)
                /\ caught' = DispatchCaught(filtered.exc)
                /\ pc' = "done"
                /\ loop' = loop
         ELSE IF filtered.val = <<>>
           THEN /\ ret' = "False"
                /\ caught' = caught
                /\ pc' = "done"
                /\ loop' = loop
         ELSE /\ ret' = ret
              /\ caught' = caught
              /\ pc' = "dispatch_render"
              /\ loop' = [loop EXCEPT !.recipients = filtered.val]
  /\ UNCHANGED <<db, stack, comment_original_states>>
  /\ UNCHANGED <<call, settings, snd, sendCalls, http, logs>>

\* Variant: a rendering failure that goes on to send_to_groups with the bare type as message.
send_task_notification_render_SendsAnyway ==
  /\ UNCHANGED <<pure, fired, threads>>
  /\ UNCHANGED request
  /\ pc = "dispatch_render"
  /\ LET rendered == render_template(call.template_type, call.context,
                        get_settings(settings).notification_templates)
     IN  IF rendered.exc # ""
           THEN /\ ret' = ret
                /\ caught' = DispatchCaught(rendered.exc)
                /\ pc' = "groups_start"
                /\ loop' = [loop EXCEPT !.renders = @ + 1, !.render_exc = rendered.exc,
                                        !.message = <<call.template_type>>]
           ELSE /\ ret' = ret
                /\ caught' = caught
                /\ pc' = "groups_start"
                /\ loop' = [loop EXCEPT !.renders = @ + 1, !.message = rendered.val]
  /\ UNCHANGED <<db, stack, comment_original_states>>
  /\ UNCHANGED <<call, settings, snd, sendCalls, http, logs>>

\* render_template, once for the whole dispatch.
send_task_notification_render ==
  /\ UNCHANGED <<pure, fired, threads>>
  /\ UNCHANGED request
  /\ pc = "dispatch_render"
  /\ LET rendered == render_template(call.template_type, call.context,
                        get_settings(settings).notification_templates)
     IN  IF rendered.exc # ""
           THEN /\ ret' = DispatchOnException(rendered.exc)
                /\ caught' = DispatchCaught(rendered.exc)
                /\ pc' = "done"
                /\ loop' = [loop EXCEPT !.renders = @ + 1, !.render_exc = rendered.exc]
           ELSE /\ ret' = ret
                /\ caught' = caught
                /\ pc' = "groups_start"
                /\ loop' = [loop EXCEPT !.renders = @ + 1, !.message = rendered.val]
  /\ UNCHANGED <<db, stack, comment_original_states>>
  /\ UNCHANGED <<call, settings, snd, sendCalls, http, logs>>

\* ---------------------------------------------------------- send_to_groups
\* group.get('phone', '') or group.get('number', '')
RecipientPhone(recipient) ==
  IF recipient.phone # <<>> THEN recipient.phone ELSE recipient.number

\* any(results.values())
AnyValue(d) == \E k \in DOMAIN d : d[k]

\* if not groups or not message: return {}
send_to_groups_start ==
  /\ UNCHANGED <<pure, fired, threads>>
  /\ UNCHANGED <<request, caught>>
  /\ pc = "groups_start"
  /\ IF loop.recipients = <<>> \/ loop.message = <<>>
       THEN /\ loop' = [loop EXCEPT !.results = <<>>]
            /\ pc' = "dispatch_finish"
       ELSE /\ loop' = [loop EXCEPT !.results = <<>>, !.idx = 1]
            /\ pc' = "groups_loop"
  /\ UNCHANGED <<db, stack, comment_original_states>>
  /\ UNCHANGED <<call, settings, snd, sendCalls, http, logs, ret>>

\* Variant: the pass without `not api_key` in its skip condition.
send_to_groups_next_SendsWithoutKey ==
  /\ UNCHANGED <<pure, fired, threads>>
  /\ UNCHANGED <<request, caught>>
  /\ pc = "groups_loop"
  /\ IF loop.idx > Len(loop.recipients)
       THEN /\ pc' = "dispatch_finish"
            /\ UNCHANGED <<loop, snd, sendCalls>>
     ELSE LET group == loop.recipients[loop.idx]
              phone == RecipientPhone(group)
          IN  IF phone = <<>>
                THEN /\ loop' = [loop EXCEPT !.results = DictSet(@, phone, FALSE),
                                             !.idx = @ + 1]
                     /\ pc' = "groups_loop"
                     /\ UNCHANGED <<snd, sendCalls>>
                ELSE /\ snd' = NewSend(phone, group.apiKey, loop.message, DefaultRetryCount)
                     /\ sendCalls' = Append(sendCalls, [to |-> group, template_type |-> call.template_type,
                                              context |-> call.context, phone |-> phone,
                                              message |-> loop.message, ok |-> FALSE])
                     /\ pc' = "send_check"
                     /\ loop' = loop
  /\ UNCHANGED <<db, stack, comment_original_states>>
  /\ UNCHANGED <<call, settings, http, logs, ret>>

\* The head of one pass of `for group in groups`: skip a group without phone
\* or apiKey, call send_notification for the others.
send_to_groups_next ==
  /\ UNCHANGED <<pure, fired, threads>>
  /\ UNCHANGED <<request, caught>>
  /\ pc = "groups_loop"
  /\ IF loop.idx > Len(loop.recipients)
       THEN /\ pc' = "dispatch_finish"
            /\ UNCHANGED <<loop, snd, sendCalls>>
     ELSE LET group == loop.recipients[loop.idx]
              phone == RecipientPhone(group)
          IN  IF phone = <<>> \/ group.apiKey = ""
                THEN /\ loop' = [loop EXCEPT !.results = DictSet(@, phone, FALSE),
                                             !.idx = @ + 1]
                     /\ pc' = "groups_loop"
                     /\ UNCHANGED <<snd, sendCalls>>
                ELSE /\ snd' = NewSend(phone, group.apiKey, loop.message, DefaultRetryCount)
                     /\ sendCalls' = Append(sendCalls, [to |-> group, template_type |-> call.template_type,
                                              context |-> call.context, phone |-> phone,
                                              message |-> loop.message, ok |-> FALSE])
                     /\ pc' = "send_check"
                     /\ loop' = loop
  /\ UNCHANGED <<db, stack, comment_original_states>>
  /\ UNCHANGED <<call, settings, http, logs, ret>>

\* results[phone] = success, for the send that just returned.
send_to_groups_record ==
  /\ UNCHANGED <<pure, fired, threads>>
  /\ UNCHANGED request
  /\ pc = "send_return"
  /\ call.kind = "dispatch"
  /\ IF snd.result = "raised"
       THEN /\ ret' = DispatchOnException("Exception")
            /\ caught' = DispatchCaught("Exception")
            /\ pc' = "done"
            /\ loop' = loop
       ELSE /\ loop' = [loop EXCEPT !.results = DictSet(@, snd.phone, snd.result = "True"),
                                    !.idx = @ + 1]
            /\ pc' = "groups_loop"
            /\ ret' = ret
            /\ caught' = caught
  /\ sendCalls' = [sendCalls EXCEPT ![Len(sendCalls)].ok = (snd.result = "True")]
  /\ UNCHANGED <<db, stack, comment_original_states>>
  /\ UNCHANGED <<call, settings, snd, http, logs>>

\* success = any(results.values()); return success
send_task_notification_finish ==
  /\ UNCHANGED <<pure, fired, threads>>
  /\ UNCHANGED <<request, caught>>
  /\ pc = "dispatch_finish"
  /\ ret' = IF AnyValue(loop.results) THEN "True" ELSE "False"
  /\ pc' = "done"
  /\ UNCHANGED <<db, stack, comment_original_states>>
  /\ UNCHANGED <<call, settings, loop, snd, sendCalls, http, logs>>

\* ------------------------------------------- direct calls: rendering
\* A context value for each placeholder: text, or a number for the counts.
SampleValue(key) ==
  CASE key = "taskTitle" -> "Logo"
    [] key = "clientName" -> "Acme"
    [] key = "clientCode" -> "C-1"
    [] key = "commentCount" -> "int:3"
    [] key = "attachmentCount" -> "int:2"
    [] OTHER -> "text"

\* The template types render_template is called with: the keys of the
\* tables, the older name test_templates.py still uses, and another name.
RenderTypes == DOMAIN REQUIRED_PLACEHOLDERS \cup {"task_created", "TASK_ARCHIVED"}

\* A context with a value for every required placeholder of the type.
FullContext(template_type) ==
  LET required == DictGet(REQUIRED_PLACEHOLDERS, template_type, <<>>)
  IN  [key \in Range(required) |-> SampleValue(key)]

\* The contexts of a type: the full one; the full one without one key; with
\* one more key; with a title that was typed with braces in it; none.
RenderContexts(template_type) ==
  LET full == FullContext(template_type)
  IN  {full, <<>>, DictSet(full, "createdBy", "Sam"),
       DictSet(full, "taskTitle", "{clientName}")}
      \cup {DictDel(full, key) : key \in DOMAIN full}

\* notification_templates with an entry under a name that is no template type.
CustomUnknown == [TASK_ARCHIVED |-> <<Lit("archived"), Ph("taskTitle")>>]

RenderCustoms == TemplateChoices \cup {CustomUnknown}

\* NotificationService.render_template(template_type, context, custom_templates)
Call_render_template ==
  /\ pc = "idle"
  /\ \E template_type \in RenderTypes, custom_templates \in RenderCustoms :
       \E context \in RenderContexts(template_type) :
         pure' = [fn |-> "render_template", template_type |-> template_type,
                  context |-> context, custom_templates |-> custom_templates,
                  result |-> render_template(template_type, context, custom_templates)]
  /\ call' = [NoCall EXCEPT !.kind = "render"]
  /\ pc' = "done"
  /\ UNCHANGED <<db, stack, comment_original_states, settings, loop, snd, sendCalls,
                 http, logs, ret, request, caught, fired, threads>>

\* ------------------------------------------ direct calls: validation
\* f'{{{placeholder}}}' in template: the text {placeholder} occurs in it.
TemplateHas(template, placeholder) ==
  \E i \in 1..Len(template) : template[i] = Ph(placeholder)

\* NotificationService.validate_template(template, template_type)
validate_template(template, template_type) ==
  IF template_type \notin DOMAIN REQUIRED_PLACEHOLDERS THEN FALSE
  ELSE LET required == REQUIRED_PLACEHOLDERS[template_type]
       IN  \A i \in 1..Len(required) : TemplateHas(template, required[i])

\* A template text that names two of the placeholders of NEW_PROJECT.
ShortTemplate == <<Lit("custom project"), Ph("taskTitle"), Ph("clientName")>>

ValidateTemplates ==
  {<<>>, ShortTemplate, CustomNewProject["NEW_PROJECT"]}
  \cup {DEFAULT_TEMPLATES[t] : t \in {"NEW_SUBTASK", "STATUS_CHANGE", "COMMENT_RESOLVED"}}

Call_validate_template ==
  /\ pc = "idle"
  /\ \E template \in ValidateTemplates, template_type \in RenderTypes :
       pure' = [fn |-> "validate_template", template |-> template,
                template_type |-> template_type,
                result |-> validate_template(template, template_type)]
  /\ call' = [NoCall EXCEPT !.kind = "validate"]
  /\ pc' = "done"
  /\ UNCHANGED <<db, stack, comment_original_states, settings, loop, snd, sendCalls,
                 http, logs, ret, request, caught, fired, threads>>

\* ------------------------------------------ UnifiedSettingsSerializer
\* A JSON value sent as notificationTemplates: null, an array, or an object
\* whose entries are template texts; NotAString stands for an entry that is
\* a number.
NotAString == <<<<"N", "int:7">>>>
IsStr(entry) == entry # NotAString

JsonNull == [json |-> "null", entries |-> <<>>]
JsonArray == [json |-> "array", entries |-> <<>>]
JsonObject(entries) == [json |-> "object", entries |-> entries]

PostedTemplates ==
  {JsonNull, JsonArray, JsonObject(<<>>), JsonObject(CustomNewProject),
   JsonObject([NEW_PROJECT |-> ShortTemplate]),
   JsonObject([NEW_PROJECT |-> <<>>]),
   JsonObject([STATUS_CHANGE |-> NotAString]),
   JsonObject(CustomUnknown),
   JsonObject([NEW_PROJECT |-> CustomNewProject["NEW_PROJECT"],
               STATUS_CHANGE |-> ShortTemplate])}

\* The validate_ methods the serializer defines; its fields are declared as
\* whatsappNumbers, notificationsEnabled and notificationTemplates.
SerializerMethods == {"validate_whatsapp_numbers", "validate_notification_templates"}

\* 'validate_' + field_name: the method is_valid() runs for a field, when the
\* serializer has a method of that name.
FieldValidatorName(field_name) ==
  CASE field_name = "whatsappNumbers" -> "validate_whatsappNumbers"
    [] field_name = "notificationsEnabled" -> "validate_notificationsEnabled"
    [] OTHER -> "validate_notificationTemplates"

\* UnifiedSettingsSerializer.validate_notification_templates(value)
validate_notification_templates(value) ==
  IF value.json = "null" THEN Returned(JsonObject(<<>>))
  ELSE IF value.json # "object"
    THEN Raised("ValidationError", "notificationTemplates must be a dictionary")
  ELSE IF \E t \in DOMAIN value.entries : ~IsStr(value.entries[t])
    THEN Raised("ValidationError", "must be a string")
  ELSE IF \E t \in DOMAIN value.entries :
            /\ t \in DOMAIN REQUIRED_PLACEHOLDERS
            /\ \E i \in 1..Len(REQUIRED_PLACEHOLDERS[t]) :
                 ~TemplateHas(value.entries[t], REQUIRED_PLACEHOLDERS[t][i])
    THEN Raised("ValidationError", "is missing required placeholders")
  ELSE Returned(value)

\* serializer.is_valid() for the notificationTemplates field: the JSONField
\* takes any JSON value; a validate_ method runs only under the field's name.
is_valid(value) ==
  IF FieldValidatorName("notificationTemplates") \in SerializerMethods
    THEN validate_notification_templates(value).exc = ""
    ELSE TRUE

\* UnifiedSettingsViewSet.update: the serializer decides on the posted value.
Call_update_settings ==
  /\ pc = "idle"
  /\ \E value \in PostedTemplates :
       pure' = [fn |-> "is_valid", value |-> value, result |-> is_valid(value)]
  /\ call' = [NoCall EXCEPT !.kind = "update_settings"]
  /\ pc' = "done"
  /\ UNCHANGED <<db, stack, comment_original_states, settings, loop, snd, sendCalls,
                 http, logs, ret, request, caught, fired, threads>>

\* ------------------------------------- direct calls: recipient filter
\* Recipients for the filter: a designer without preferences, numbers
\* stored with a user id (a number, zero, text), with '+' and spaces.
rDesigner == Recipient(<<"2", "7">>, <<>>, "k7", "designer", Absent, <<>>)
rZero == Recipient(<<"2", "5">>, <<>>, "k8", "admin", "int:0", <<>>)
rPlus == Recipient(<<"+", "2", " ", "6">>, <<>>, "k9", "admin", "7", <<>>)
rInner == Recipient(<<"2", "+", "8">>, <<>>, "k0", "admin", Absent, <<>>)

FilterPool == {rAdmin, rPrint, rDup, rDesigner, rZero, rPlus, rInner, rMuted}

FilterLists == UNION {[1..n -> FilterPool] : n \in 0..MaxRecipients}

\* The contexts of the filter: none; a new status; no status; the creator's
\* user id; the creator's phone.
FilterContexts ==
  {<<>>, [taskTitle |-> "Logo"],
   [newStatus |-> "In Printing"], [newStatus |-> "Pending"], [newStatus |-> "Has Comments"],
   [created_by_user_id |-> "int:7"], [created_by_user_id |-> "int:0"],
   [created_by_phone |-> <<"2", "1">>], [created_by_phone |-> <<"+", "2", "6">>],
   [created_by_phone |-> <<"2", "8">>]}

FilterTypes == {"STATUS_CHANGE", "NEW_PROJECT"}

\* NotificationService.filter_recipients_by_role(template_type, recipients, context)
Call_filter_recipients_by_role ==
  /\ pc = "idle"
  /\ \E template_type \in FilterTypes, recipients \in FilterLists, context \in FilterContexts :
       pure' = [fn |-> "filter_recipients_by_role", template_type |-> template_type,
                recipients |-> recipients, context |-> context,
                result |-> filter_recipients_by_role(template_type, recipients, context)]
  /\ call' = [NoCall EXCEPT !.kind = "filter"]
  /\ pc' = "done"
  /\ UNCHANGED <<db, stack, comment_original_states, settings, loop, snd, sendCalls,
                 http, logs, ret, request, caught, fired, threads>>

\* NotificationService.should_exclude_action_creator(recipient, context)
Call_should_exclude_action_creator ==
  /\ pc = "idle"
  /\ \E recipient \in FilterPool, context \in FilterContexts :
       pure' = [fn |-> "should_exclude_action_creator", recipient |-> recipient,
                context |-> context,
                result |-> should_exclude_action_creator(recipient, context)]
  /\ call' = [NoCall EXCEPT !.kind = "exclude"]
  /\ pc' = "done"
  /\ UNCHANGED <<db, stack, comment_original_states, settings, loop, snd, sendCalls,
                 http, logs, ret, request, caught, fired, threads>>

\* Recipients with preferences: per status, per type, both.
rPrefStatus == Recipient(<<"3", "1">>, <<>>, "p1", "admin", Absent,
                         ("STATUS_In Printing" :> FALSE))
rPrefBoth == Recipient(<<"3", "2">>, <<>>, "p2", "admin", Absent,
                       ("STATUS_In Printing" :> TRUE) @@ ("STATUS_CHANGE" :> FALSE))
rPrefType == Recipient(<<"3", "3">>, <<>>, "p3", "admin", Absent,
                       ("STATUS_Pending" :> FALSE) @@ ("NEW_PROJECT" :> FALSE)
                         @@ ("COMMENT_ADDED" :> TRUE))

PreferencePool == {rAdmin, rMuted, rPrefStatus, rPrefBoth, rPrefType}

PreferenceTypes == {"STATUS_CHANGE", "NEW_PROJECT", "COMMENT_ADDED"}

\* NotificationService.check_user_preferences(recipient, template_type, context)
Call_check_user_preferences ==
  /\ pc = "idle"
  /\ \E recipient \in PreferencePool, template_type \in PreferenceTypes,
        context \in FilterContexts :
       pure' = [fn |-> "check_user_preferences", recipient |-> recipient,
                template_type |-> template_type, context |-> context,
                result |-> check_user_preferences(recipient, template_type, context)]
  /\ call' = [NoCall EXCEPT !.kind = "preferences"]
  /\ pc' = "done"
  /\ UNCHANGED <<db, stack, comment_original_states, settings, loop, snd, sendCalls,
                 http, logs, ret, request, caught, fired, threads>>

\* ------------------------------------------------------ Model.save()
\* A save() call in progress: the instance, whether the write inserted the
\* row, the step of the save the call is at, and instance._original_status.
Frame(model, id, inst, created) ==
  [model |-> model, id |-> id, inst |-> inst, created |-> created,
   step |-> IF model = "Attachment" THEN "write" ELSE "pre_save",
   original_status |-> PyNone]

Top == stack[Len(stack)]

\* The receivers of a model's signals, in the order they were connected.
NextStep(model, step) ==
  CASE model = "Task" /\ step = "pre_save" -> "write"
    [] model = "Task" /\ step = "write" -> "update_parent_status_on_subtask_change"
    [] model = "Task" /\ step = "update_parent_status_on_subtask_change" -> "notify_task_created"
    [] model = "Task" /\ step = "notify_task_created" -> "notify_status_changed"
    [] model = "Comment" /\ step = "pre_save" -> "write"
    [] model = "Comment" /\ step = "write" -> "notify_comment_added"
    [] model = "Comment" /\ step = "notify_comment_added" -> "notify_comment_resolved"
    [] model = "Attachment" /\ step = "write" -> "notify_attachment_added"
    [] OTHER -> "saved"

\* The stack once the receiver at its top has returned.
Advance(stk) ==
  [stk EXCEPT ![Len(stk)].step = NextStep(stk[Len(stk)].model, stk[Len(stk)].step)]

AtStep(step) == pc = "pipeline" /\ stack # <<>> /\ Top.step = step

\* The statuses a task is created with.
NewTaskStatuses == {"Pending", "In Progress"}

\* A view saves a task: an existing one with a status, or a new one.
Call_save_task ==
  /\ UNCHANGED <<pure, fired, threads>>
  /\ pc = "idle"
  /\ \/ \E id \in DOMAIN db.tasks, status \in db.statuses :
          stack' = <<Frame("Task", id, [db.tasks[id] EXCEPT !.status = status], FALSE)>>
     \/ \E status \in NewTaskStatuses, parent \in {NoParent, "P"} :
          stack' = <<Frame("Task", "N", [status |-> status, parent |-> parent], TRUE)>>
  /\ call' = [NoCall EXCEPT !.kind = "save"]
  /\ request' = [model |-> stack'[1].model, id |-> stack'[1].id,
                 inst |-> stack'[1].inst, created |-> stack'[1].created,
                 view |-> "", data |-> <<>>]
  /\ caught' = caught
  /\ pc' = "pipeline"
  /\ UNCHANGED <<db, comment_original_states, settings, loop, snd, sendCalls, http, logs, ret>>

\* A view saves a comment: an existing one, or a new one on P or on S.
Call_save_comment ==
  /\ UNCHANGED <<pure, fired, threads>>
  /\ pc = "idle"
  /\ \/ \E id \in DOMAIN db.comments, is_resolved \in BOOLEAN :
          stack' = <<Frame("Comment", id,
                           [db.comments[id] EXCEPT !.is_resolved = is_resolved], FALSE)>>
     \/ \E task \in {"P", "S"} :
          stack' = <<Frame("Comment", "D",
                           [task |-> task, parent_comment |-> NoParent,
                            is_resolved |-> FALSE, text |-> "note"], TRUE)>>
  /\ call' = [NoCall EXCEPT !.kind = "save"]
  /\ request' = [model |-> stack'[1].model, id |-> stack'[1].id,
                 inst |-> stack'[1].inst, created |-> stack'[1].created,
                 view |-> "", data |-> <<>>]
  /\ caught' = caught
  /\ pc' = "pipeline"
  /\ UNCHANGED <<db, comment_original_states, settings, loop, snd, sendCalls, http, logs, ret>>

\* A view saves a new attachment of P.
Call_save_attachment ==
  /\ UNCHANGED <<pure, fired, threads>>
  /\ pc = "idle"
  /\ \E size \in {512, 2048} :
       stack' = <<Frame("Attachment", "A", [task |-> "P", name |-> "logo.pdf", size |-> size], TRUE)>>
  /\ call' = [NoCall EXCEPT !.kind = "save"]
  /\ request' = [model |-> stack'[1].model, id |-> stack'[1].id,
                 inst |-> stack'[1].inst, created |-> stack'[1].created,
                 view |-> "", data |-> <<>>]
  /\ caught' = caught
  /\ pc' = "pipeline"
  /\ UNCHANGED <<db, comment_original_states, settings, loop, snd, sendCalls, http, logs, ret>>

\* pre_save of Task: instance._original_status = the status of the stored row,
\* None when there is no row.
store_original_status ==
  /\ UNCHANGED <<pure, fired, threads>>
  /\ UNCHANGED <<request, caught>>
  /\ AtStep("pre_save")
  /\ Top.model = "Task"
  /\ stack' = Advance([stack EXCEPT ![Len(stack)].original_status =
                         IF Top.id \in DOMAIN db.tasks THEN db.tasks[Top.id].status ELSE PyNone])
  /\ UNCHANGED <<db, comment_original_states, pc, call, settings, loop, snd, sendCalls,
                 http, logs, ret>>

\* pre_save of Comment: _comment_original_states[pk] = the stored is_resolved,
\* None when there is no row.
store_original_comment_state ==
  /\ UNCHANGED <<pure, fired, threads>>
  /\ UNCHANGED <<request, caught>>
  /\ AtStep("pre_save")
  /\ Top.model = "Comment"
  /\ comment_original_states' =
       DictSet(comment_original_states, Top.id,
               IF Top.id \in DOMAIN db.comments
                 THEN PyBool(db.comments[Top.id].is_resolved) ELSE PyNone)
  /\ stack' = Advance(stack)
  /\ UNCHANGED <<db, pc, call, settings, loop, snd, sendCalls, http, logs, ret>>

\* The write of the row, between pre_save and post_save.
save_write ==
  /\ UNCHANGED <<pure, fired, threads>>
  /\ UNCHANGED <<request, caught>>
  /\ AtStep("write")
  /\ db' = CASE Top.model = "Task" -> [db EXCEPT !.tasks = DictSet(@, Top.id, Top.inst)]
             [] Top.model = "Comment" -> [db EXCEPT !.comments = DictSet(@, Top.id, Top.inst)]
             [] OTHER -> [db EXCEPT !.attachments = DictSet(@, Top.id, Top.inst)]
  /\ stack' = Advance(stack)
  /\ UNCHANGED <<comment_original_states, pc, call, settings, loop, snd, sendCalls,
                 http, logs, ret>>

\* Variant: the status with the highest order_index.
EarliestStatus_Latest(tasks, parent) ==
  LET subtasks == {t \in DOMAIN tasks : tasks[t].parent = parent}
      statuses == {tasks[t].status : t \in subtasks}
  IN  IF statuses = {} THEN PyNone
      ELSE CHOOSE st \in statuses : \A other \in statuses : order_index(st) >= order_index(other)

\* The status with the lowest order_index among the subtasks of parent.
EarliestStatus(tasks, parent) ==
  LET subtasks == {t \in DOMAIN tasks : tasks[t].parent = parent}
      statuses == {tasks[t].status : t \in subtasks}
  IN  IF statuses = {} THEN PyNone
      ELSE CHOOSE st \in statuses : \A other \in statuses : order_index(st) <= order_index(other)

\* post_save of Task (tasks/models.py): the parent of an updated subtask takes
\* the earliest status of its subtasks, by a save() of the parent.
update_parent_status_on_subtask_change ==
  /\ UNCHANGED <<pure, fired, threads>>
  /\ UNCHANGED <<request, caught>>
  /\ AtStep("update_parent_status_on_subtask_change")
  /\ LET parent == Top.inst.parent
         earliest == EarliestStatus(db.tasks, parent)
     IN  IF /\ ~Top.created
            /\ parent # NoParent
            /\ earliest # PyNone
            /\ db.tasks[parent].status # HasComments
            /\ db.tasks[parent].status # earliest
           THEN stack' = Append(Advance(stack),
                                Frame("Task", parent,
                                      [db.tasks[parent] EXCEPT !.status = earliest], FALSE))
           ELSE stack' = Advance(stack)
  /\ UNCHANGED <<db, comment_original_states, pc, call, settings, loop, snd, sendCalls,
                 http, logs, ret>>

\* save() returns to its caller.
save_return ==
  /\ UNCHANGED <<pure, fired, threads>>
  /\ UNCHANGED <<request, caught>>
  /\ AtStep("saved")
  /\ stack' = SubSeq(stack, 1, Len(stack) - 1)
  /\ IF Len(stack) > 1 THEN pc' = pc /\ ret' = ret
     ELSE IF request.view = "" THEN pc' = "done" /\ ret' = "saved"
     ELSE IF Top.model = "Comment" THEN pc' = "view_status" /\ ret' = ret
     ELSE pc' = "done" /\ ret' = "201"
  /\ UNCHANGED <<db, comment_original_states, call, settings, loop, snd, sendCalls, http, logs>>

\* ------------------------------------------------------ the task views
\* A configuration store that leaves the triggers nothing to send: no row,
\* or notifications switched off.
QuietStores ==
  {s \in StoreStates : s.state = "missing" \/
     (s.state = "ok" /\ ~s.notifications_enabled /\ s.whatsapp_numbers = <<rAdmin>>
      /\ s.notification_templates = CustomNone)}

\* The store states a handler may find.  A save on the initial rows is
\* followed with every store state; the views, and the saves on the rows that
\* have the 'has-comments' status, where the rows are what is looked at, are
\* followed with a quiet store.
StoreChoices ==
  IF request.view = "" /\ db.statuses = StatusIds THEN StoreStates ELSE QuietStores

\* request.data of the two views: text and parentCommentId, "" when missing.
CommentTexts == {"", "hello"}
ParentCommentIds == {"", "C", "R", "X"}

\* The comment row Comment.objects.create is called with.
NewComment(task, parent_comment_id, text) ==
  [task |-> task,
   parent_comment |-> IF parent_comment_id = "" THEN NoParent ELSE parent_comment_id,
   is_resolved |-> FALSE, text |-> text]

\* The view answers without saving anything.
ViewResponds(view, task, text, parent_comment_id, status) ==
  /\ request' = [model |-> "Comment", id |-> "D",
                 inst |-> NewComment(task, parent_comment_id, text), created |-> TRUE,
                 view |-> view,
                 data |-> [task |-> task, text |-> text,
                           parent_comment_id |-> parent_comment_id]]
  /\ pc' = "done"
  /\ ret' = status
  /\ stack' = stack

\* The view creates the comment: Comment.objects.create(...), a save().
ViewCreatesComment(view, task, text, parent_comment_id) ==
  /\ request' = [model |-> "Comment", id |-> "D",
                 inst |-> NewComment(task, parent_comment_id, text), created |-> TRUE,
                 view |-> view,
                 data |-> [task |-> task, text |-> text,
                           parent_comment_id |-> parent_comment_id]]
  /\ pc' = "pipeline"
  /\ ret' = ret
  /\ stack' = <<Frame("Comment", "D", NewComment(task, parent_comment_id, text), TRUE)>>

\* POST /api/tasks/:id/comments: 400 without a text, else the comment is created.
Call_add_comment ==
  /\ UNCHANGED <<pure, fired, threads>>
  /\ pc = "idle"
  /\ \E task \in {"P", "S"}, text \in CommentTexts, parent_comment_id \in {"", "C"} :
       IF text = ""
         THEN ViewResponds("add_comment", task, text, parent_comment_id, "400")
         ELSE ViewCreatesComment("add_comment", task, text, parent_comment_id)
  /\ call' = [NoCall EXCEPT !.kind = "view"]
  /\ UNCHANGED <<db, comment_original_states, settings, loop, snd, sendCalls, http, logs,
                 caught>>

\* Variant: the reply is created without looking for its parent comment.
Call_add_reply_AnyParent ==
  /\ UNCHANGED <<pure, fired, threads>>
  /\ pc = "idle"
  /\ \E task \in {"P", "S"}, text \in CommentTexts, parent_comment_id \in ParentCommentIds :
       IF text = "" \/ parent_comment_id = ""
         THEN ViewResponds("add_reply", task, text, parent_comment_id, "400")
         ELSE ViewCreatesComment("add_reply", task, text, parent_comment_id)
  /\ call' = [NoCall EXCEPT !.kind = "view"]
  /\ UNCHANGED <<db, comment_original_states, settings, loop, snd, sendCalls, http, logs,
                 caught>>

\* POST /api/tasks/:id/add_reply: 400 without a text or a parent id, 404 when
\* the task has no comment of that id, else the reply is created.
Call_add_reply ==
  /\ UNCHANGED <<pure, fired, threads>>
  /\ pc = "idle"
  /\ \E task \in {"P", "S"}, text \in CommentTexts, parent_comment_id \in ParentCommentIds :
       IF text = "" \/ parent_comment_id = ""
         THEN ViewResponds("add_reply", task, text, parent_comment_id, "400")
       ELSE IF \/ parent_comment_id \notin DOMAIN db.comments
               \/ db.comments[parent_comment_id].task # task
         THEN ViewResponds("add_reply", task, text, parent_comment_id, "404")
       ELSE ViewCreatesComment("add_reply", task, text, parent_comment_id)
  /\ call' = [NoCall EXCEPT !.kind = "view"]
  /\ UNCHANGED <<db, comment_original_states, settings, loop, snd, sendCalls, http, logs,
                 caught>>

\* In both views, after the comment: the task takes the status 'has-comments'
\* when a row of that id exists and the task is not in it already.
view_has_comments_status ==
  /\ UNCHANGED <<pure, fired, threads>>
  /\ UNCHANGED <<request, caught>>
  /\ pc = "view_status"
  /\ LET task == request.data.task
     IN  IF HasComments \in db.statuses /\ db.tasks[task].status # HasComments
           THEN /\ stack' = <<Frame("Task", task,
                                    [db.tasks[task] EXCEPT !.status = HasComments], FALSE)>>
                /\ pc' = "pipeline"
                /\ ret' = ret
           ELSE /\ stack' = stack
                /\ pc' = "done"
                /\ ret' = "201"
  /\ call' = [NoCall EXCEPT !.kind = "view"]
  /\ UNCHANGED <<db, comment_original_states, settings, loop, snd, sendCalls, http, logs>>

\* ------------------------------------------------------ event triggers
\* Variant: a handler that catches ValueError instead of Exception.
TriggerCatches_ValueErrorOnly(handler, exc) == exc = "ValueError"

\* The except clause that closes a handler's try block: except Exception.
TriggerCatches(handler, exc) == exc \in PythonExceptions

\* template_type of the NotificationLog rows a handler writes.
LogTemplateType(handler) ==
  CASE handler = "notify_task_created" -> "NEW_PROJECT"
    [] handler = "notify_status_changed" -> "STATUS_CHANGE"
    [] handler = "notify_comment_added" -> "COMMENT_ADDED"
    [] handler = "notify_comment_resolved" -> "commentResolved"
    [] OTHER -> "attachmentAdded"

TaskTitle(id) == "Logo"
ClientName(id) == "Acme"
ClientNumber(id) == "C-1"

\* instance.text[:100] + ('...' if len(instance.text) > 100 else ''); the
\* comments of the model are shorter than 100 characters.
CommentText(text) == text

\* The size as text: bytes below 1024, else KB or MB with one decimal.
FormatSize(size) ==
  IF size < 1024 THEN <<size, 0, "B">>
  ELSE IF size < 1024 * 1024
    THEN <<size \div 1024, ((size * 10) \div 1024) % 10, "KB">>
  ELSE <<size \div (1024 * 1024), ((size * 10) \div (1024 * 1024)) % 10, "MB">>

\* The handler at the top of the stack skips: it returns before its try block.
SkipHandler ==
  /\ stack' = Advance(stack)
  /\ fired' = fired
  /\ UNCHANGED <<request, caught>>
  /\ UNCHANGED <<db, comment_original_states, pc, call, settings, loop, snd, sendCalls,
                 http, logs, ret>>

\* The handler enters its try block with the context it built.
StartTrigger(handler, template_type, context) ==
  /\ call' = [kind |-> call.kind, handler |-> handler, template_type |-> template_type,
              context |-> context]
  /\ loop' = NoLoop
  /\ fired' = Append(fired, [handler |-> handler, template_type |-> template_type,
                             id |-> Top.id, context |-> context])
  /\ pc' = "trigger_settings"
  /\ UNCHANGED <<request, caught>>
  /\ UNCHANGED <<db, stack, comment_original_states, settings, snd, sendCalls, http, logs, ret>>

\* The handler leaves its try block: normally (exc = ""), or by the exception
\* exc, which the except clause catches or which unwinds every save() in
\* progress.  The finally clause of notify_comment_resolved runs either way.
LeaveTrigger(exc) ==
  /\ IF exc = "" \/ TriggerCatches(call.handler, exc)
       THEN /\ stack' = Advance(stack)
            /\ pc' = "pipeline"
            /\ ret' = ret
       ELSE /\ stack' = <<>>
            /\ pc' = "done"
            /\ ret' = "raised"
  /\ comment_original_states' =
       IF call.handler = "notify_comment_resolved"
         THEN DictDel(comment_original_states, Top.id)
         ELSE comment_original_states
  /\ caught' = IF exc # "" /\ TriggerCatches(call.handler, exc)
                 THEN caught \cup {exc} ELSE caught

\* Variant: without the return for a save that created nothing.
notify_task_created_OnEverySave ==
  /\ UNCHANGED <<pure, threads>>
  /\ AtStep("notify_task_created")
  /\ IF Top.inst.parent # NoParent
       THEN SkipHandler
       ELSE StartTrigger("notify_task_created", "NEW_PROJECT",
              [taskTitle |-> TaskTitle(Top.id), clientName |-> ClientName(Top.id),
               clientCode |-> ClientNumber(Top.id),
               status |-> StatusLabel(Top.inst.status), urgency |-> "Normal"])

\* post_save of Task: NEW_PROJECT for a created task that has no parent.
notify_task_created ==
  /\ UNCHANGED <<pure, threads>>
  /\ AtStep("notify_task_created")
  /\ IF ~Top.created \/ Top.inst.parent # NoParent
       THEN SkipHandler
       ELSE StartTrigger("notify_task_created", "NEW_PROJECT",
              [taskTitle |-> TaskTitle(Top.id), clientName |-> ClientName(Top.id),
               clientCode |-> ClientNumber(Top.id),
               status |-> StatusLabel(Top.inst.status), urgency |-> "Normal"])

\* post_save of Task: STATUS_CHANGE for an updated task that has no parent and
\* whose status differs from instance._original_status.
notify_status_changed ==
  /\ UNCHANGED <<pure, threads>>
  /\ AtStep("notify_status_changed")
  /\ IF \/ Top.created
        \/ Top.inst.parent # NoParent
        \/ Top.original_status = PyNone
        \/ Top.original_status = Top.inst.status
       THEN SkipHandler
       ELSE StartTrigger("notify_status_changed", "STATUS_CHANGE",
              [taskTitle |-> TaskTitle(Top.id), clientName |-> ClientName(Top.id),
               clientCode |-> ClientNumber(Top.id), statusMessage |-> "status updated",
               oldStatus |-> StatusLabel(Top.original_status),
               newStatus |-> StatusLabel(Top.inst.status)])

\* post_save of Comment: COMMENT_ADDED for a created comment.
notify_comment_added ==
  /\ UNCHANGED <<pure, threads>>
  /\ AtStep("notify_comment_added")
  /\ IF ~Top.created
       THEN SkipHandler
       ELSE LET task == Top.inst.task
            IN  StartTrigger("notify_comment_added", "COMMENT_ADDED",
                  [taskLabel |-> IF db.tasks[task].parent # NoParent
                                   THEN "subtask" ELSE "project",
                   taskTitle |-> TaskTitle(task), clientName |-> ClientName(task),
                   clientCode |-> ClientNumber(task),
                   commentText |-> CommentText(Top.inst.text),
                   commentCount |-> PyInt(Cardinality(
                       {c \in DOMAIN db.comments : db.comments[c].task = task}))])

\* Variant: without the return for a comment that is not resolved after the save.
notify_comment_resolved_AnyChange ==
  /\ UNCHANGED <<pure, threads>>
  /\ AtStep("notify_comment_resolved")
  /\ LET original_resolved == DictGet(comment_original_states, Top.id, PyNone)
     IN  IF \/ Top.created
            \/ original_resolved = PyNone
            \/ original_resolved = PyBool(Top.inst.is_resolved)
           THEN SkipHandler
           ELSE StartTrigger("notify_comment_resolved", "COMMENT_RESOLVED",
                  [taskTitle |-> TaskTitle(Top.inst.task),
                   commentText |-> CommentText(Top.inst.text)])

\* post_save of Comment: COMMENT_RESOLVED when the stored original state is
\* unresolved and the saved comment is resolved.
notify_comment_resolved ==
  /\ UNCHANGED <<pure, threads>>
  /\ AtStep("notify_comment_resolved")
  /\ LET original_resolved == DictGet(comment_original_states, Top.id, PyNone)
     IN  IF \/ Top.created
            \/ original_resolved = PyNone
            \/ original_resolved = PyBool(Top.inst.is_resolved)
            \/ ~Top.inst.is_resolved
           THEN SkipHandler
           ELSE StartTrigger("notify_comment_resolved", "COMMENT_RESOLVED",
                  [taskTitle |-> TaskTitle(Top.inst.task),
                   commentText |-> CommentText(Top.inst.text)])

\* post_save of Attachment: ATTACHMENT_ADDED for a created attachment.
notify_attachment_added ==
  /\ UNCHANGED <<pure, threads>>
  /\ AtStep("notify_attachment_added")
  /\ IF ~Top.created
       THEN SkipHandler
       ELSE StartTrigger("notify_attachment_added", "ATTACHMENT_ADDED",
              [taskTitle |-> TaskTitle(Top.inst.task), fileName |-> Top.inst.name,
               fileSize |-> FormatSize(Top.inst.size)])

\* In a handler: get_settings(), then the two early returns.
trigger_settings ==
  /\ UNCHANGED <<pure, fired, threads>>
  /\ UNCHANGED request
  /\ pc = "trigger_settings"
  /\ \E store \in StoreChoices :
       /\ settings' = store
       /\ IF \/ ~get_settings(store).notifications_enabled
             \/ get_settings(store).whatsapp_numbers = <<>>
            THEN LeaveTrigger("")
            ELSE /\ pc' = "trigger_render"
                 /\ UNCHANGED <<stack, comment_original_states, ret, caught>>
  /\ UNCHANGED <<db, call, loop, snd, sendCalls, http, logs>>

\* In a handler: render_template, then the loop over whatsapp_numbers starts.
trigger_render ==
  /\ UNCHANGED <<pure, fired, threads>>
  /\ UNCHANGED request
  /\ pc = "trigger_render"
  /\ LET rendered == render_template(call.template_type, call.context,
                        get_settings(settings).notification_templates)
     IN  IF rendered.exc # ""
           THEN /\ LeaveTrigger(rendered.exc)
                /\ loop' = [loop EXCEPT !.renders = @ + 1, !.render_exc = rendered.exc]
           ELSE /\ loop' = [loop EXCEPT !.renders = @ + 1, !.message = rendered.val,
                                        !.recipients = get_settings(settings).whatsapp_numbers,
                                        !.idx = 1]
                /\ pc' = "trigger_loop"
                /\ UNCHANGED <<stack, comment_original_states, ret, caught>>
  /\ UNCHANGED <<db, call, settings, snd, sendCalls, http, logs>>

\* In a handler: the head of one pass of `for recipient in whatsapp_numbers`.
trigger_next_recipient ==
  /\ UNCHANGED <<pure, fired, threads>>
  /\ UNCHANGED request
  /\ pc = "trigger_loop"
  /\ IF loop.idx > Len(loop.recipients)
       THEN /\ LeaveTrigger("")
            /\ UNCHANGED <<loop, snd, sendCalls>>
     ELSE LET recipient == loop.recipients[loop.idx]
              phone == RecipientPhone(recipient)
          IN  IF ~recipient.isDict
                THEN /\ LeaveTrigger("AttributeError")
                     /\ UNCHANGED <<loop, snd, sendCalls>>
              ELSE IF phone = <<>> \/ recipient.apiKey = ""
                THEN /\ loop' = [loop EXCEPT !.idx = @ + 1]
                     /\ UNCHANGED <<stack, comment_original_states, pc, ret, snd, sendCalls, caught>>
              ELSE /\ snd' = NewSend(phone, recipient.apiKey, loop.message, DefaultRetryCount)
                   /\ sendCalls' = Append(sendCalls, [to |-> recipient, template_type |-> call.template_type,
                                            context |-> call.context, phone |-> phone,
                                            message |-> loop.message, ok |-> FALSE])
                   /\ pc' = "send_check"
                   /\ UNCHANGED <<stack, comment_original_states, ret, loop, caught>>
  /\ UNCHANGED <<db, call, settings, http, logs>>

\* In a handler: NotificationLog.objects.create for the send that just
\* returned; the insert succeeds or raises.
trigger_log ==
  /\ UNCHANGED <<pure, fired, threads>>
  /\ UNCHANGED request
  /\ pc = "send_return"
  /\ call.kind \in {"save", "view"}
  /\ sendCalls' = [sendCalls EXCEPT ![Len(sendCalls)].ok = (snd.result = "True")]
  /\ IF snd.result = "raised"
       THEN /\ LeaveTrigger("Exception")
            /\ UNCHANGED <<loop, logs>>
     ELSE \E outcome \in {"", "DatabaseError"} :
            IF outcome = ""
              THEN /\ logs' = Append(logs,
                          [task |-> IF Top.model = "Task" THEN Top.id ELSE Top.inst.task,
                           recipient_number |-> snd.phone,
                           message |-> loop.message,
                           template_type |-> LogTemplateType(call.handler),
                           success |-> (snd.result = "True"),
                           error_message |-> IF snd.result = "True" THEN PyNone
                                             ELSE "Failed to send notification"])
                   /\ loop' = [loop EXCEPT !.idx = @ + 1]
                   /\ pc' = "trigger_loop"
                   /\ UNCHANGED <<stack, comment_original_states, ret, caught>>
              ELSE /\ LeaveTrigger(outcome)
                   /\ UNCHANGED <<loop, logs>>
  /\ UNCHANGED <<db, call, settings, snd, http>>

Next ==
  \/ Call_send_notification
  \/ send_notification_check
  \/ send_notification_attempt
  \/ send_notification_return
  \/ Call_send_task_notification
  \/ send_task_notification_settings
  \/ send_task_notification_filter
  \/ send_task_notification_render
  \/ send_to_groups_start
  \/ send_to_groups_next
  \/ send_to_groups_record
  \/ send_task_notification_finish
  \/ Call_save_task
  \/ Call_save_comment
  \/ Call_save_attachment
  \/ store_original_status
  \/ store_original_comment_state
  \/ save_write
  \/ update_parent_status_on_subtask_change
  \/ notify_task_created
  \/ notify_status_changed
  \/ notify_comment_added
  \/ notify_comment_resolved
  \/ notify_attachment_added
  \/ trigger_settings
  \/ trigger_render
  \/ trigger_next_recipient
  \/ trigger_log
  \/ save_return
  \/ Call_render_template
  \/ Call_validate_template
  \/ Call_update_settings
  \/ Call_filter_recipients_by_role
  \/ Call_should_exclude_action_creator
  \/ Call_check_user_preferences
  \/ Call_add_comment
  \/ Call_add_reply
  \/ view_has_comments_status

Spec == Init /\ [][Next]_vars

\* ------------------------------------- concurrent saves of one comment
\* Two requests served by threads of one process save the same comment.
\* Each loads the row, sets is_resolved as its request says and calls save();
\* the handlers of the two saves interleave, and both use the one module-level
\* dict.  A statement on the database is visible to the other thread at once.
ThreadIds == {"A", "B"}

\* A request that has not started: the comment it will save.
NewThread(id) ==
  [pc |-> "request", id |-> id, inst |-> <<>>, recorded |-> Absent, read |-> Absent,
   resolved_events |-> 0]

InitConcurrent ==
  /\ db = InitialDb
  /\ stack = <<>>
  /\ comment_original_states = <<>>
  /\ pc = "threads"
  /\ call = [NoCall EXCEPT !.kind = "threads"]
  /\ settings = Unread
  /\ loop = NoLoop
  /\ snd = NoSend
  /\ sendCalls = <<>>
  /\ http = 0
  /\ logs = <<>>
  /\ ret = "pending"
  /\ request = NoRequest
  /\ caught = {}
  /\ pure = NoPure
  /\ fired = <<>>
  /\ \E id \in DOMAIN InitialDb.comments : threads = [t \in ThreadIds |-> NewThread(id)]

ThreadAt(t, position) == pc = "threads" /\ threads[t].pc = position

OnlyThreads ==
  UNCHANGED <<stack, pc, call, settings, loop, snd, sendCalls, http, logs, ret, request,
              caught, pure>>

\* CommentUpdateView.update: the row is loaded, is_resolved is set from the
\* request, serializer.save() begins.
thread_update_comment(t) ==
  /\ ThreadAt(t, "request")
  /\ \E is_resolved \in BOOLEAN :
       threads' = [threads EXCEPT
                     ![t].inst = [db.comments[threads[t].id] EXCEPT !.is_resolved = is_resolved],
                     ![t].pc = "pre_save"]
  /\ UNCHANGED <<db, comment_original_states, fired>>
  /\ OnlyThreads

\* pre_save in thread t: _comment_original_states[pk] = the stored is_resolved.
thread_store_original_comment_state(t) ==
  /\ ThreadAt(t, "pre_save")
  /\ LET original == PyBool(db.comments[threads[t].id].is_resolved)
     IN  /\ comment_original_states' =
              DictSet(comment_original_states, threads[t].id, original)
         /\ threads' = [threads EXCEPT ![t].recorded = original, ![t].pc = "write"]
  /\ UNCHANGED <<db, fired>>
  /\ OnlyThreads

\* The write of the row in thread t.
thread_save_write(t) ==
  /\ ThreadAt(t, "write")
  /\ db' = [db EXCEPT !.comments[threads[t].id] = threads[t].inst]
  /\ threads' = [threads EXCEPT ![t].pc = "post_save"]
  /\ UNCHANGED <<comment_original_states, fired>>
  /\ OnlyThreads

\* post_save in thread t: notify_comment_resolved up to its try block.
thread_notify_comment_resolved(t) ==
  /\ ThreadAt(t, "post_save")
  /\ LET original_resolved == DictGet(comment_original_states, threads[t].id, PyNone)
         inst == threads[t].inst
     IN  IF \/ original_resolved = PyNone
            \/ original_resolved = PyBool(inst.is_resolved)
            \/ ~inst.is_resolved
           THEN /\ threads' = [threads EXCEPT ![t].read = original_resolved,
                                              ![t].pc = "done"]
                /\ fired' = fired
           ELSE /\ threads' = [threads EXCEPT ![t].read = original_resolved,
                                              ![t].resolved_events = @ + 1,
                                              ![t].pc = "try"]
                /\ fired' = Append(fired,
                       [handler |-> "notify_comment_resolved",
                        template_type |-> "COMMENT_RESOLVED", id |-> threads[t].id,
                        context |-> [taskTitle |-> TaskTitle(inst.task),
                                     commentText |-> CommentText(inst.text)]])
  /\ UNCHANGED <<db, comment_original_states>>
  /\ OnlyThreads

\* The try block of notify_comment_resolved in thread t ends; its finally
\* clause deletes the entry of the comment when there is one.
thread_notify_comment_resolved_finally(t) ==
  /\ ThreadAt(t, "try")
  /\ comment_original_states' = DictDel(comment_original_states, threads[t].id)
  /\ threads' = [threads EXCEPT ![t].pc = "done"]
  /\ UNCHANGED <<db, fired>>
  /\ OnlyThreads

NextConcurrent ==
  \E t \in ThreadIds :
    \/ thread_update_comment(t)
    \/ thread_store_original_comment_state(t)
    \/ thread_save_write(t)
    \/ thread_notify_comment_resolved(t)
    \/ thread_notify_comment_resolved_finally(t)

SpecConcurrent == InitConcurrent /\ [][NextConcurrent]_vars

\* ================================================================ claims
Done == pc = "done"

\* The operation is a dispatch by the orchestrator / a save with its triggers.
IsDispatch == call.kind = "dispatch"
IsSave == call.kind = "save"

\* The send_notification call in progress got past its parameter check.
SendHasParameters == snd.phone # <<>> /\ snd.api_key # "" /\ snd.message # <<>>

\* The configuration get_settings found leaves nothing to do: the read
\* raised, notifications are disabled, or no recipient is configured.
Quiescent ==
  /\ settings.state # "unread"
  /\ \/ settings.state \in {"raises", "missing"}
     \/ ~settings.notifications_enabled
     \/ settings.whatsapp_numbers = <<>>

\* The stored row of the instance the view saved.
SavedRow ==
  CASE request.model = "Task" -> DictGet(db.tasks, request.id, <<>>)
    [] request.model = "Comment" -> DictGet(db.comments, request.id, <<>>)
    [] OTHER -> DictGet(db.attachments, request.id, <<>>)

\* C1: no send_notification call is made to a configured recipient who fails
\* a stage of the filter (role relevance, self-exclusion, preferences), in a
\* dispatch by send_task_notification and in the event triggers alike.
C1_NoSendToFilteredOut ==
  \A i \in 1..Len(sendCalls) :
    (IsDispatch \/ IsSave) =>
      PassesFilter(sendCalls[i].template_type, sendCalls[i].to, sendCalls[i].context)

C3_TrueIffSomeSendSucceeded ==
  (IsDispatch /\ Done) =>
    ((ret = "True") <=> (\E i \in 1..Len(sendCalls) : sendCalls[i].ok))

\* C4: with notifications disabled, no recipient configured, or a
\* configuration read that raised, a dispatch returns False, makes no
\* request and creates no NotificationLog row (and a trigger sends nothing).
C4_QuiescentConfigDoesNothing ==
  ((IsDispatch \/ IsSave) /\ Quiescent) =>
    /\ http = 0
    /\ sendCalls = <<>>
    /\ logs = <<>>
    /\ IsDispatch => (Done /\ ret = "False")

\* a dispatch returned False because reading the configuration raised
C4_Witness == IsDispatch /\ Done /\ settings.state = "raises" /\ ret = "False"

\* C5: an operation that reached delivery leaves exactly one NotificationLog
\* row per recipient it delivered to, with the notification type, the
\* recipient's number, the message and that recipient's send result.
C5_OneLogPerDelivery ==
  ((IsDispatch \/ IsSave) /\ Done) =>
    /\ Len(logs) = Len(sendCalls)
    /\ \A i \in 1..Len(logs) :
         /\ logs[i].template_type = sendCalls[i].template_type
         /\ logs[i].recipient_number = sendCalls[i].phone
         /\ logs[i].message = sendCalls[i].message
         /\ logs[i].success = sendCalls[i].ok
         /\ ~logs[i].success => logs[i].error_message # PyNone

\* C6: when render_template raises in a dispatch, no send is attempted, the
\* rendering is not repeated and the dispatch returns False.
C6_RenderFailureAborts ==
  IsDispatch =>
    /\ loop.renders <= 1
    /\ loop.render_exc # "" =>
         (Done /\ ret = "False" /\ sendCalls = <<>> /\ http = 0)

\* a dispatch whose rendering raised, after the filter had kept a recipient
C6_Witness ==
  IsDispatch /\ Done /\ loop.render_exc = "ValueError" /\ loop.recipients # <<>>

\* C7: send_task_notification never raises; it ends by returning a boolean.
C7_DispatchNeverRaises ==
  IsDispatch =>
    /\ ret # "raised"
    /\ Done => ret \in {"True", "False"}
    /\ ~Done => ENABLED Next

\* a dispatch returned False after an AttributeError inside its try block
C7_Witness == IsDispatch /\ Done /\ ret = "False" /\ "AttributeError" \in caught

\* C8: a send_notification call that has its parameters makes its requests
\* one after another until the first 200 or until retry_count + 1 requests
\* are made: without a 200 it makes exactly retry_count + 1 requests and
\* returns False; when request k is the first answered 200 it returns True
\* after exactly k requests.
C8_AttemptsUntilFirstSuccess ==
  /\ snd.attempts <= snd.retry_count + 1
  /\ snd.ok200 <= 1
  /\ snd.ok200 = 1 => (snd.result = "True" /\ snd.last = "200" /\ pc # "send_attempt")
  /\ snd.result = "True" => (snd.ok200 = 1 /\ snd.attempts = snd.attempt + 1)
  /\ pc = "send_attempt" =>
       (snd.ok200 = 0 /\ snd.attempts < snd.retry_count + 1 /\ snd.attempts = snd.attempt)
  /\ (SendHasParameters /\ snd.result # "pending" /\ snd.ok200 = 0) =>
       (snd.result = "False" /\ snd.attempts = snd.retry_count + 1)

\* the second request was the first answered 200: True after two requests
C8_Witness ==
  call.kind = "send" /\ Done /\ ret = "True" /\ snd.attempts = 2 /\ snd.retry_count = 2

\* C9 as stated: send_notification never returns False having made fewer than
\* retry_count + 1 requests, whatever the phone, the key and the message.
C9_FalseOnlyAfterAllAttempts ==
  snd.result = "False" => snd.attempts = snd.retry_count + 1

\* C9 amended: with a phone, a key and a message, send_notification returns
\* True on the first 200 and False only after retry_count + 1 failed
\* requests; when one of the three is empty it returns False without a request.
C9_FalseAfterAllAttemptsOrNoParameters ==
  /\ (snd.result = "False" /\ SendHasParameters) =>
       (snd.attempts = snd.retry_count + 1 /\ snd.ok200 = 0)
  /\ (snd.result # "pending" /\ ~SendHasParameters) =>
       (snd.result = "False" /\ snd.attempts = 0)
  /\ snd.result = "True" => (SendHasParameters /\ snd.last = "200")
  /\ ~SendHasParameters => snd.attempts = 0

\* send_notification returned False for an empty message without a request
C9_Witness ==
  /\ call.kind = "send" /\ Done /\ ret = "False"
  /\ snd.message = <<>> /\ snd.phone # <<>> /\ snd.api_key # "" /\ snd.attempts = 0

\* C10: send_notification never raises: a timeout, a request error, any other
\* exception and a non-200 answer each count as one failed request, which is
\* followed by the next request while one remains; the call returns a boolean.
C10_SendNeverRaises ==
  /\ snd.result # "raised"
  /\ (snd.last \in {"500", "Timeout", "RequestException", "Exception"}
        /\ snd.attempts < snd.retry_count + 1) =>
       (pc = "send_attempt" /\ snd.result = "pending")
  /\ (snd.last \in {"500", "Timeout", "RequestException", "Exception"}
        /\ snd.attempts = snd.retry_count + 1) => snd.result = "False"
  /\ pc = "send_return" => snd.result \in {"True", "False"}
  /\ (call.kind = "send" /\ ~Done) => ENABLED Next

\* the request after one that ended in an exception other than a request error
C10_Witness ==
  /\ call.kind = "send" /\ pc = "send_attempt" /\ snd.last = "Exception"
  /\ snd.attempts = 1 /\ snd.retry_count >= 1

\* The sum of a sequence of numbers.
RECURSIVE SumSeq(_)
SumSeq(q) == IF q = <<>> THEN 0 ELSE Head(q) + SumSeq(Tail(q))

\* The requests of the send in progress that did not end in a 200.
FailedAttempts == snd.attempts - snd.ok200

\* C11: send_notification sleeps 2^k seconds after the failed attempt with
\* index k when another attempt follows, and sleeps neither after a 200 nor
\* after the last attempt; the sleeps of one call add up to less than
\* 2^retry_count, which for retry_count = 2 is at most 7 seconds.
C11_ExponentialBackoff ==
  /\ \A i \in 1..Len(snd.slept) : snd.slept[i] = 2^(i - 1)
  /\ Len(snd.slept) = IF FailedAttempts < snd.retry_count THEN FailedAttempts
                      ELSE snd.retry_count
  /\ SumSeq(snd.slept) <= 2^snd.retry_count - 1
  /\ snd.retry_count = 2 => SumSeq(snd.slept) <= 7

\* a send with retry_count 2 that failed three times: it slept 1 s, then 2 s
C11_Witness ==
  /\ call.kind = "send" /\ Done /\ ret = "False"
  /\ snd.retry_count = 2 /\ snd.attempts = 3 /\ snd.slept = <<1, 2>>

\* The group has what send_to_groups needs to call send_notification.
HasPhoneAndKey(group) == RecipientPhone(group) # <<>> /\ group.apiKey # ""

\* The recipients of the send_notification calls made so far, in order.
SentTo == [i \in 1..Len(sendCalls) |-> sendCalls[i].to]

\* The number of groups whose pass of the loop has begun.
GroupsBegun ==
  IF pc \in {"send_check", "send_attempt", "send_return"} THEN loop.idx
  ELSE IF loop.idx = 0 THEN 0 ELSE loop.idx - 1

\* C12: send_to_groups calls send_notification once for each group that has a
\* phone and an apiKey, in the order of the list, and for a group without
\* phone or apiKey it sets the result under that phone to False and calls
\* nothing.
C12_OneSendPerCompleteRecipient ==
  IsDispatch =>
    /\ SentTo = SelectSeq(SubSeq(loop.recipients, 1, GroupsBegun), HasPhoneAndKey)
    /\ (pc = "groups_loop" /\ loop.idx > 1
          /\ ~HasPhoneAndKey(loop.recipients[loop.idx - 1])) =>
         /\ RecipientPhone(loop.recipients[loop.idx - 1]) \in DOMAIN loop.results
         /\ ~loop.results[RecipientPhone(loop.recipients[loop.idx - 1])]
    /\ http <= Len(sendCalls) * (DefaultRetryCount + 1)

\* a fan-out over a group without apiKey and a complete one: one call
C12_Witness ==
  /\ IsDispatch /\ pc = "dispatch_finish"
  /\ Len(loop.recipients) = 2 /\ Len(sendCalls) = 1
  /\ loop.recipients[1].apiKey = "" /\ RecipientPhone(loop.recipients[1]) # <<>>
  /\ HasPhoneAndKey(loop.recipients[2])

\* The names n whose token {n} is written in a piece of text.
BraceTokens(text) ==
  CASE text = "{clientName}" -> {"clientName"}
    [] text = "{clientCode}" -> {"clientCode"}
    [] OTHER -> {}

\* The {name} tokens left in a rendered message.
ResultTokens(message) == UNION {BraceTokens(message[i]) : i \in 1..Len(message)}

\* The {name} tokens written in the values of a context.
ValueTokens(context) == UNION {BraceTokens(PyStr(context[key])) : key \in DOMAIN context}

IsRender == pure.fn = "render_template"

\* The template type is a key of REQUIRED_PLACEHOLDERS.
Recognized(template_type) == template_type \in DOMAIN REQUIRED_PLACEHOLDERS

RequiredOf(template_type) == Range(DictGet(REQUIRED_PLACEHOLDERS, template_type, <<>>))

\* A render_template call on the built-in templates, for a known type, with
\* a context that has every required placeholder.
RenderOfCompleteContext ==
  /\ IsRender /\ Recognized(pure.template_type) /\ pure.custom_templates = <<>>
  /\ RequiredOf(pure.template_type) \subseteq DOMAIN pure.context

\* C13 as stated: with every required placeholder in the context,
\* render_template on the built-in templates returns a message in which no
\* {name} token of the required placeholders is left.
C13_NoTokenLeft ==
  RenderOfCompleteContext =>
    /\ pure.result.exc = ""
    /\ ResultTokens(pure.result.val) \cap RequiredOf(pure.template_type) = {}

\* C13 amended: with every required placeholder in the context,
\* render_template on the built-in templates returns a message, and a {name}
\* token of a required placeholder is in the message only when a value of the
\* context has that token written in it.
C13_NoTokenLeftButFromValues ==
  RenderOfCompleteContext =>
    /\ pure.result.exc = ""
    /\ pure.result.val # <<>>
    /\ ResultTokens(pure.result.val) \cap RequiredOf(pure.template_type)
         \subseteq ValueTokens(pure.context)

\* a STATUS_CHANGE message rendered from a context whose values have no braces
C13_Witness ==
  /\ RenderOfCompleteContext /\ pure.template_type = "STATUS_CHANGE"
  /\ ValueTokens(pure.context) = {} /\ pure.result.exc = ""
  /\ Len(pure.result.val) = 7

\* C14: when exactly one required placeholder of a known type is missing from
\* the context, render_template raises the missing-placeholder ValueError
\* that names that key alone, whatever the template would substitute.
C14_MissingPlaceholderNamed ==
  \A key \in RequiredOf(IF IsRender THEN pure.template_type ELSE "") :
    (/\ IsRender
     /\ pure.custom_templates = <<>> \/ pure.template_type \in DOMAIN pure.custom_templates
     /\ RequiredOf(pure.template_type) \ DOMAIN pure.context = {key}) =>
      /\ pure.result.exc = "ValueError"
      /\ pure.result.val[1] = "Missing required placeholders"
      /\ pure.result.val[2] = <<key>>

\* NEW_PROJECT without urgency, on a custom template that also names a
\* placeholder no context has: the error names urgency
C14_Witness ==
  /\ IsRender /\ pure.template_type = "NEW_PROJECT" /\ pure.custom_templates = CustomBroken
  /\ RequiredOf("NEW_PROJECT") \ DOMAIN pure.context = {"urgency"}
  /\ pure.result.exc = "ValueError" /\ pure.result.val[2] = <<"urgency">>

\* The template the specification chooses: the custom entry of the type when
\* there is a non-empty one, else the built-in template.
ChosenTemplate(template_type, custom_templates) ==
  IF template_type \in DOMAIN custom_templates /\ custom_templates[template_type] # <<>>
    THEN custom_templates[template_type]
    ELSE DEFAULT_TEMPLATES[template_type]

\* C15: render_template renders the custom template of the type when
\* custom_templates has a non-empty entry for the type, and the built-in
\* template of the type in every other case.
C15_CustomElseDefault ==
  (/\ IsRender /\ Recognized(pure.template_type)
   /\ RequiredOf(pure.template_type) \subseteq DOMAIN pure.context
   /\ TemplateFields(ChosenTemplate(pure.template_type, pure.custom_templates))
        \subseteq DOMAIN pure.context) =>
    /\ pure.result.exc = ""
    /\ pure.result.val =
         Format(ChosenTemplate(pure.template_type, pure.custom_templates), pure.context)

\* C16: render_template fails (it raises the ValueError for an invalid
\* template type) for every type that is not a key of the tables, whatever
\* the context and whatever custom_templates holds.
C16_UnknownTypeFails ==
  (IsRender /\ ~Recognized(pure.template_type)) => pure.result.exc = "ValueError"

\* Every required placeholder of the type is written as {name} in the text.
NamesEveryRequired(template, template_type) ==
  \A name \in RequiredOf(template_type) : Ph(name) \in Range(template)

\* C17: validate_template returns True exactly when the type is a key of
\* REQUIRED_PLACEHOLDERS and the text has {name} for every required
\* placeholder of it, and False otherwise; and the settings serializer
\* accepts posted templates of known types exactly when each of them passes
\* that test.
C17_ValidateAndSerializerAgree ==
  /\ pure.fn = "validate_template" =>
       (pure.result <=> (/\ Recognized(pure.template_type)
                         /\ NamesEveryRequired(pure.template, pure.template_type)))
  /\ (/\ pure.fn = "is_valid" /\ pure.value.json = "object"
      /\ \A t \in DOMAIN pure.value.entries :
           Recognized(t) /\ IsStr(pure.value.entries[t])) =>
       (pure.result <=> \A t \in DOMAIN pure.value.entries :
                          NamesEveryRequired(pure.value.entries[t], t))

IsFilter == pure.fn = "filter_recipients_by_role"

\* The recipients a filter_recipients_by_role call returned.
Kept == IF IsFilter /\ pure.result.exc = "" THEN Range(pure.result.val) ELSE {}

\* C18: for STATUS_CHANGE, filter_recipients_by_role returns a designer or a
\* print_manager only when the context has a newStatus that is in the
\* relevant statuses of the role, never when newStatus is missing or not in
\* that set; a recipient whose role is admin or who has no role is not dropped
\* for the status, whatever it is.
C18_StatusRelevance ==
  (IsFilter /\ pure.template_type = "STATUS_CHANGE") =>
    /\ \A r \in Kept :
         r.role \in {"designer", "print_manager"} =>
           /\ "newStatus" \in DOMAIN pure.context
           /\ pure.context["newStatus"] \in ROLE_RELEVANT_STATUSES(r.role)
    /\ \A i \in 1..Len(pure.recipients) :
         (/\ pure.recipients[i].role \in {"admin", Absent}
          /\ pure.recipients[i].preferences = <<>>
          /\ DOMAIN pure.context \cap {"created_by_user_id", "created_by_phone"} = {})
           => pure.recipients[i] \in Kept

\* C19: filter_recipients_by_role never returns a recipient whose userId,
\* as text, equals the text of context's created_by_user_id, whatever the id
\* is (0 included).
C19_CreatorByUserIdDropped ==
  \A r \in Kept :
    ~(/\ "created_by_user_id" \in DOMAIN pure.context
      /\ r.userId # Absent
      /\ PyStr(r.userId) = PyStr(pure.context["created_by_user_id"]))

\* The phone without a '+' at its start.
StripLeadingPlus(phone) == IF phone # <<>> /\ Head(phone) = "+" THEN Tail(phone) ELSE phone

\* The normalisation the specification gives: spaces and a leading '+' removed.
SpecNormalize(phone) == StripLeadingPlus(StrRemove(phone, " "))

\* C20: with created_by_phone in the context, should_exclude_action_creator
\* excludes a recipient exactly when the number delivery uses for the
\* recipient (phone, else number), without spaces and a leading '+', equals
\* the creator's phone without spaces and a leading '+'.
C20_CreatorByPhoneDropped ==
  (/\ pure.fn = "should_exclude_action_creator"
   /\ "created_by_phone" \in DOMAIN pure.context) =>
    (pure.result <=> SpecNormalize(RecipientPhone(pure.recipient))
                       = SpecNormalize(pure.context["created_by_phone"]))

IsPreferences == pure.fn = "check_user_preferences"

PreferenceDecision(preferences, template_type, context) ==
  IF DOMAIN preferences = {} THEN TRUE
  ELSE IF template_type = "STATUS_CHANGE" /\ "newStatus" \in DOMAIN context
    THEN IF StatusKey(context["newStatus"]) \in DOMAIN preferences
           THEN preferences[StatusKey(context["newStatus"])]
         ELSE IF "STATUS_CHANGE" \in DOMAIN preferences
           THEN preferences["STATUS_CHANGE"]
         ELSE TRUE
  ELSE IF template_type \in DOMAIN preferences THEN preferences[template_type]
  ELSE TRUE

\* C21: the preference stage passes a recipient that has no preferences map;
\* for STATUS_CHANGE with a newStatus in the context its decision is the
\* entry 'STATUS_<newStatus>' of the map when that key exists, else the entry
\* 'STATUS_CHANGE' when that key exists, else true; for every other call it
\* is the entry of the template type when present, else true.
C21_PreferenceDecision ==
  IsPreferences =>
    pure.result = PreferenceDecision(pure.recipient.preferences, pure.template_type,
                                     pure.context)

\* The status entry allows what the STATUS_CHANGE entry forbids.
C21_Witness ==
  /\ IsPreferences /\ pure.recipient = rPrefBoth /\ pure.template_type = "STATUS_CHANGE"
  /\ pure.context = [newStatus |-> "In Printing"]
  /\ pure.result = TRUE

StageRole(template_type, recipients, context) ==
  SelectSeq(recipients,
            LAMBDA r : should_send_to_role(template_type, RecipientRole(r), context))

StageCreator(template_type, recipients, context) ==
  SelectSeq(recipients, LAMBDA r : ~should_exclude_action_creator(r, context))

StagePreferences(template_type, recipients, context) ==
  SelectSeq(recipients, LAMBDA r : check_user_preferences(r, template_type, context))

FiredBy(handler) == SelectSeq(fired, LAMBDA e : e.handler = handler)

\* The rows as they were before the operation (the status table tells which).
RowsAtStart == CHOOSE rows \in InitialDbs : rows.statuses = db.statuses

\* The save in progress is of an existing comment that was unresolved and is
\* saved resolved.
JustResolved ==
  /\ IsSave /\ request.model = "Comment" /\ ~request.created
  /\ ~RowsAtStart.comments[request.id].is_resolved
  /\ request.inst.is_resolved

\* C23: the comment-resolved trigger goes on to its notification only for a
\* save that changes the resolved flag of an existing comment from false to
\* true, and then once; never for a creation, for a save that leaves the
\* flag as it was, or for a change from true to false.
C23_ResolvedOnlyOnFalseToTrue ==
  /\ FiredBy("notify_comment_resolved") # <<>> =>
       /\ JustResolved
       /\ Len(FiredBy("notify_comment_resolved")) = 1
       /\ fired[Len(fired)].id = request.id
       /\ fired[Len(fired)].template_type = "COMMENT_RESOLVED"
  /\ (Done /\ JustResolved) => Len(FiredBy("notify_comment_resolved")) = 1

C23_Witness ==
  /\ Done /\ JustResolved /\ request.id = "C" /\ ret = "saved"
  /\ Len(FiredBy("notify_comment_resolved")) = 1

TaskHandlers == {"notify_task_created", "notify_status_changed"}

TaskEvents(id) == SelectSeq(fired, LAMBDA e : e.handler \in TaskHandlers /\ e.id = id)

\* C24: the save of one task triggers at most one task notification:
\* NEW_PROJECT only when the save created a task that has no parent,
\* STATUS_CHANGE only when the save updated an existing task that has no
\* parent and whose status id before the save differs from the one after;
\* the save of a task that has a parent triggers neither for that task.
C24_AtMostOneTaskNotification ==
  \A id \in DOMAIN db.tasks \cup {"N"} :
    /\ Len(TaskEvents(id)) <= 1
    /\ \A i \in 1..Len(TaskEvents(id)) :
         LET e == TaskEvents(id)[i]
         IN  /\ id \in DOMAIN db.tasks /\ db.tasks[id].parent = NoParent
             /\ e.template_type = "NEW_PROJECT" =>
                  /\ e.handler = "notify_task_created"
                  /\ id \notin DOMAIN RowsAtStart.tasks
                  /\ request.created /\ request.id = id
             /\ e.template_type = "STATUS_CHANGE" =>
                  /\ e.handler = "notify_status_changed"
                  /\ id \in DOMAIN RowsAtStart.tasks
                  /\ RowsAtStart.tasks[id].status # db.tasks[id].status
             /\ e.template_type \in {"NEW_PROJECT", "STATUS_CHANGE"}

\* An update of P with another status has fired STATUS_CHANGE, once.
C24_Witness ==
  /\ Done /\ IsSave /\ request.model = "Task" /\ request.id = "P" /\ ~request.created
  /\ Len(TaskEvents("P")) = 1 /\ TaskEvents("P")[1].template_type = "STATUS_CHANGE"
  /\ RowsAtStart.tasks["P"].status # db.tasks["P"].status

ReadyToNotify ==
  /\ settings.state = "ok" /\ settings.notifications_enabled
  /\ settings.notification_templates = CustomNone
  /\ \A i \in 1..Len(settings.whatsapp_numbers) : settings.whatsapp_numbers[i].isDict
  /\ \E i \in 1..Len(settings.whatsapp_numbers) :
       /\ RecipientPhone(settings.whatsapp_numbers[i]) # <<>>
       /\ settings.whatsapp_numbers[i].apiKey # ""

\* C25: the context a trigger builds has every placeholder its template
\* type requires, so with the built-in templates, notifications enabled and
\* a recipient that has a number and a key, the trigger renders its message
\* and attempts a send.
C25_TriggerContextsComplete ==
  /\ \A i \in 1..Len(fired) :
       \A key \in Range(REQUIRED_PLACEHOLDERS[fired[i].template_type]) :
         key \in DOMAIN fired[i].context
  /\ (Done /\ IsSave /\ fired # <<>> /\ ReadyToNotify) =>
       (loop.render_exc = "" /\ sendCalls # <<>>)

\* C27: once the pre_save and post_save handlers of a comment save have both
\* finished, the table of original states holds no entry for that comment,
\* whatever the save was (a creation, an edit that leaves the flag, a
\* resolve, an un-resolve); so the table is empty after completed saves.
C27_TableEmptyAfterSave ==
  (Done /\ IsSave /\ request.model = "Comment") =>
    /\ request.id \notin DOMAIN comment_original_states
    /\ comment_original_states = <<>>

SubtaskUpdate ==
  /\ IsSave /\ request.model = "Task" /\ ~request.created
  /\ request.inst.parent # NoParent

\* The derived status of the parent once the subtask's row is written.
DerivedStatus ==
  LET rows == [RowsAtStart.tasks EXCEPT ![request.id] = request.inst]
      lowest == CHOOSE n \in 0..4 :
                  /\ \E t \in DOMAIN rows : rows[t].parent = "P" /\ order_index(rows[t].status) = n
                  /\ \A t \in DOMAIN rows : rows[t].parent = "P" => order_index(rows[t].status) >= n
  IN  CHOOSE st \in db.statuses : order_index(st) = lowest

ParentFollows ==
  /\ RowsAtStart.tasks["P"].status # HasComments
  /\ RowsAtStart.tasks["P"].status # DerivedStatus

FanOutReached == IsSave /\ loop.idx >= 1

\* C29: in the fan-out of a trigger, a delivery-log write that fails for one
\* recipient does not keep the later recipients from their send attempts:
\* in every run that reached the fan-out, each configured recipient that has
\* a number and a key gets a send attempt.
C29_LogFailureDoesNotStopFanOut ==
  (/\ Done /\ FanOutReached
   /\ \A i \in 1..Len(loop.recipients) : loop.recipients[i].isDict) =>
    \A i \in 1..Len(loop.recipients) :
      (RecipientPhone(loop.recipients[i]) # <<>> /\ loop.recipients[i].apiKey # "") =>
        \E k \in 1..Len(sendCalls) : sendCalls[k].to = loop.recipients[i]

IsView == request.view # ""

ReplyWithoutParent ==
  /\ request.view = "add_reply"
  /\ \/ request.data.text = ""
     \/ request.data.parent_comment_id = ""
     \/ request.data.parent_comment_id \notin DOMAIN RowsAtStart.comments
     \/ RowsAtStart.comments[request.data.parent_comment_id].task # request.data.task

\* C30: after every successful add_comment or add_reply on a task, the task
\* is in the status 'has-comments' whenever a status of that id exists, and
\* in the status it had when none exists; add_reply without a text, without
\* a parent id, or with a parent id that is no comment of that task answers
\* with an error, creates no comment and changes no status.
C30_CommentSetsHasComments ==
  (Done /\ IsView) =>
    /\ ret \in {"201", "400", "404"}
    /\ ret = "201" =>
         /\ "D" \in DOMAIN db.comments
         /\ db.comments["D"].task = request.data.task
         /\ db.tasks[request.data.task].status =
              IF HasComments \in db.statuses THEN HasComments
              ELSE RowsAtStart.tasks[request.data.task].status
    /\ ReplyWithoutParent => (ret \in {"400", "404"} /\ db = RowsAtStart)

\* A reply to R on S has moved S to 'has-comments'.
C30_Witness ==
  /\ Done /\ request.view = "add_reply" /\ ret = "201"
  /\ request.data.task = "S" /\ request.data.parent_comment_id = "R"
  /\ RowsAtStart.tasks["S"].status = "In Progress"
  /\ db.tasks["S"].status = HasComments

\* C26: when the saves of one comment by concurrent requests interleave, the
\* original state a post_save handler reads from the process-wide table is
\* the one the pre_save handler of the same save recorded, so every save that
\* finds the flag false and leaves it true triggers exactly one
\* COMMENT_RESOLVED and no other save triggers one.
C26_OriginalStateIsOwn ==
  \A t \in DOMAIN threads :
    /\ threads[t].read # Absent => threads[t].read = threads[t].recorded
    /\ threads[t].pc = "done" =>
         threads[t].resolved_events =
           IF threads[t].recorded = "False" /\ threads[t].inst.is_resolved THEN 1 ELSE 0

====
